---------------------------- MODULE Spec2Model ----------------------------
(***************************************************************************)
(* State-machine model of the deterministic evaluation harness of          *)
(* apandacoding/greenagent (backend/green_agent): the trace ledger, the    *)
(* controller, the tool registry, the plan validator and normalizer, the   *)
(* tool runner, the GreenAgent orchestrator, the shared WebSocket session  *)
(* state of api_server.py, the EventQueue, the Isolator, the fixture       *)
(* registry and wrapper, the grounding validator, the scoring engine and   *)
(* the NDCG scorer, the artifact generator, the Sandbox, and the tool-call *)
(* tracking of integration.py.                                             *)
(*                                                                         *)
(* Python values are modelled as records [kind, val]:                      *)
(*   kind "none"  val <<>>                 None                            *)
(*   kind "str"   val a sequence of pieces of text                         *)
(*   kind "int"   val <<n>>                                                *)
(*   kind "list"  val a sequence of values                                 *)
(*   kind "dict"  val a sequence of <<key, value>> pairs in insertion      *)
(*                order, keys being character sequences                    *)
(* A str is a sequence of pieces of text: single characters, and words of  *)
(* two or more letters (a tool name, "SFO", "Dec") that no operation of    *)
(* the model has to split.                                                 *)
(* Optional strings (run ids, error messages) use the string None.         *)
(***************************************************************************)
EXTENDS Integers, Sequences, FiniteSets, TLC

VARIABLES
    controller_run_id,  \* GreenAgentController.run_id
    uuid_count,         \* number of uuid4() run ids generated so far
    ledger,             \* TraceLedgerManager.ledger
    _traces,            \* TraceLedgerManager._traces: list of object references
    heap,               \* the ToolCallTrace objects, addressed by reference
    queue,              \* EventQueue._queue
    view,               \* the list a caller got from get_traces()
    exported,           \* what export_to_json() returned, if it ran last
    history,            \* the traces as record_tool_call created them
    run_start,          \* Len(history) when the current ledger was started
    op,                 \* the operation that ran last
    submitted,          \* the plan the caller handed in
    entry_point,        \* the method the caller handed it to
    plan,               \* the list execute_plan iterates over
    pc,                 \* position of execute_plan / validate_and_execute_plan
    idx,                \* number of plan entries execute_plan has consumed
    results,            \* execute_plan's result list
    invoked,            \* per consumed entry, how often the tool function ran
    recorded,           \* per consumed entry, how many traces it appended
    outcome,            \* what the entry point returned to its caller
    fixtures_on,        \* ToolRunner(..., use_fixtures)
    run_no,             \* which of the two full runs is executing
    run_hashes,         \* per full run, the return_value_hash sequence
    sessions,           \* per WebSocket session: its position and run id
    session_log,        \* per session, the traces it recorded, by reference
    _subscribers,       \* EventQueue._subscribers
    _running,           \* EventQueue._running
    loops,              \* the dispatch loops (threads) started so far
    callers,            \* threads inside subscribe()/_start_processor()
    put_count,          \* number of put() calls so far
    delivered,          \* per subscriber, the events delivered to it
    invocations,        \* the callback invocations and removals, in order
    _global_state,      \* Isolator._global_state
    _local_state,       \* Isolator._local_state, per thread
    iso_pc,             \* per thread, its position inside Isolator.reset()
    set_since,          \* per thread, the keys set since its reset() began
    files,              \* the fixture directory: the files by path
    _cache,             \* FixtureRegistry._cache
    loads,              \* the load_fixture calls so far and what they returned
    save_count,         \* number of save_fixture calls so far
    saved,              \* the save_fixture calls so far and what they were given
    fx_op,              \* the registry operation that ran last
    w_pc,               \* position of the wrapped tool function
    w_call,             \* the tool name and query of the wrapped call
    fixture_data,       \* wrapped_tool's local fixture_data
    w_log,              \* what the wrapped call has done so far, in order
    w_return,           \* what the wrapped call returned
    w_calls,            \* number of wrapped calls so far
    fn_args,            \* the arguments a pure function is applied to
    fn_returns,         \* what its applications returned, in order
    fn_pc,              \* how far the applications have come
    artifact_files,     \* the artifact directory: the files by name
    export_pc,          \* position of export_all_artifacts
    write_buffer,       \* what the open file object has buffered
    observed,           \* what the concurrent reader read last
    socket_socket,      \* the attribute socket.socket
    random_state,       \* the state of the module random
    sandboxes,          \* the Sandbox objects: their fields and contexts
    socket_log,         \* the socket.socket() calls made inside a context
    subscribed_at,      \* per subscriber, the number of put() calls before its subscribe()
    _tool_call_counts,  \* integration._tool_call_counts
    _tool_failures,     \* integration._tool_failures
    _tool_successes,    \* integration._tool_successes
    tool_log,           \* the calls of the wrapped tools so far, in order
    resets              \* number of reset_tool_call_tracking() calls so far

ledger_vars == <<controller_run_id, uuid_count, ledger, _traces, heap, queue,
                 view, exported, history, run_start, op>>
runner_vars == <<submitted, entry_point, plan, pc, idx, results, invoked, recorded, outcome,
                 fixtures_on, run_no, run_hashes>>
session_vars == <<sessions, session_log>>
queue_vars == <<_subscribers, _running, loops, callers, put_count, delivered,
               invocations>>
isolator_vars == <<_global_state, _local_state, iso_pc, set_since>>
fixture_vars == <<files, _cache, loads, save_count, saved, fx_op>>
wrapper_vars == <<w_pc, w_call, fixture_data, w_log, w_return, w_calls>>
function_vars == <<fn_args, fn_returns, fn_pc>>
artifact_vars == <<artifact_files, export_pc, write_buffer, observed>>
sandbox_vars == <<socket_socket, random_state, sandboxes, socket_log>>
subscription_vars == <<subscribed_at>>
tracking_vars == <<_tool_call_counts, _tool_failures, _tool_successes, tool_log, resets>>
added_vars == <<artifact_vars, sandbox_vars, subscription_vars, tracking_vars>>
\* the components added to the harness: the isolator, the fixture registry,
\* the fixture wrapper, and the pure functions applied on their own
harness_vars == <<isolator_vars, fixture_vars, wrapper_vars, function_vars, added_vars>>
core_vars == <<ledger_vars, runner_vars, session_vars, queue_vars>>
beside_isolator == <<core_vars, fixture_vars, wrapper_vars, function_vars, added_vars>>
beside_fixtures == <<core_vars, isolator_vars, wrapper_vars, function_vars, added_vars>>
beside_functions == <<core_vars, isolator_vars, fixture_vars, wrapper_vars, added_vars>>
components == <<isolator_vars, fixture_vars, wrapper_vars, function_vars>>
beside_artifacts == <<runner_vars, session_vars, queue_vars, components, sandbox_vars,
                      subscription_vars, tracking_vars>>
beside_sandbox == <<core_vars, components, artifact_vars, subscription_vars, tracking_vars>>
beside_subscription == <<components, artifact_vars, sandbox_vars, tracking_vars>>
beside_tracking == <<runner_vars, session_vars, queue_vars, components, artifact_vars,
                     sandbox_vars, subscription_vars>>
vars == <<core_vars, harness_vars>>

-----------------------------------------------------------------------------
(* Bounds of the model *)

MaxCalls == 2
MaxRuns == 2
MaxPlanLen == 2
MaxPuts == 2
MaxLoads == 3
MaxSaves == 1
MaxLen == 3
MaxTraces == 2

-----------------------------------------------------------------------------
(* Python values *)

None == "None"

PyNone == [kind |-> "none", val |-> <<>>]
PyStr(s) == [kind |-> "str", val |-> s]
PyInt(n) == [kind |-> "int", val |-> <<n>>]
PyList(items) == [kind |-> "list", val |-> items]
PyDict(pairs) == [kind |-> "dict", val |-> pairs]

IsStr(v) == v.kind = "str"
IsDict(v) == v.kind = "dict"

\* Python truthiness, as used by `a or b`
Truthy(v) ==
    CASE v.kind = "none" -> FALSE
      [] v.kind \in {"int", "float"} -> v.val[1] # 0
      [] OTHER -> Len(v.val) > 0

\* key in d, d[key] and d.get(key) of a dict
DictHas(d, key) == \E i \in 1..Len(d.val) : d.val[i][1] = key
DictItem(d, key) == d.val[CHOOSE i \in 1..Len(d.val) : d.val[i][1] = key][2]
DictGet(d, key) == IF DictHas(d, key) THEN DictItem(d, key) ELSE PyNone

\* Python ==: dicts compare as sets of items, everything else structurally
RECURSIVE PyEq(_, _)
PyEq(v, w) ==
    /\ v.kind = w.kind
    /\ IF v.kind = "dict"
       THEN /\ Len(v.val) = Len(w.val)
            /\ \A i \in 1..Len(v.val) : \E j \in 1..Len(w.val) :
                   /\ v.val[i][1] = w.val[j][1]
                   /\ PyEq(v.val[i][2], w.val[j][2])
       ELSE IF v.kind = "list"
       THEN /\ Len(v.val) = Len(w.val)
            /\ \A i \in 1..Len(v.val) : PyEq(v.val[i], w.val[i])
       ELSE v.val = w.val

\* the place of a piece of text in Python's str order, for sorting dict
\* keys: ten times the code point of its first character, words after the
\* single character they start with
Ord(c) ==
    CASE c = " " -> 320 [] c = "*" -> 420 [] c = "/" -> 470
      [] c = "1" -> 490 [] c = "2" -> 500
      [] c = "a" -> 970 [] c = "args" -> 971 [] c = "arguments" -> 972
      [] c = "b" -> 980
      [] c = "q" -> 1130 [] c = "query" -> 1131
      [] c = "tool" -> 1160 [] c = "tool_name" -> 1161
      [] OTHER -> 1200

RECURSIVE StrLess(_, _)
StrLess(s, t) ==
    IF t = <<>> THEN FALSE
    ELSE IF s = <<>> THEN TRUE
    ELSE IF Ord(s[1]) # Ord(t[1]) THEN Ord(s[1]) < Ord(t[1])
    ELSE StrLess(Tail(s), Tail(t))


-----------------------------------------------------------------------------
(* json.dumps(value, sort_keys=True, default=str) and the content hash *)

Digit(n) ==
    CASE n = 0 -> "0" [] n = 1 -> "1" [] n = 2 -> "2" [] n = 3 -> "3"
      [] n = 4 -> "4" [] n = 5 -> "5" [] n = 6 -> "6" [] n = 7 -> "7"
      [] n = 8 -> "8" [] OTHER -> "9"

RECURSIVE IntStr(_)
IntStr(n) == IF n < 10 THEN <<Digit(n)>> ELSE IntStr(n \div 10) \o <<Digit(n % 10)>>

JsonStr(s) == <<"\"">> \o s \o <<"\"">>

\* the items of a dict ordered by key (sort_keys=True); keys are distinct
SortedItems_unsorted(pairs) == pairs
SortedItems(pairs) ==
    LET before(j, i) == \/ StrLess(pairs[j][1], pairs[i][1])
                        \/ (~StrLess(pairs[i][1], pairs[j][1]) /\ j < i)
        rank(i) == 1 + Cardinality({j \in 1..Len(pairs) : before(j, i)})
    IN  [r \in 1..Len(pairs) |-> pairs[CHOOSE i \in 1..Len(pairs) : rank(i) = r]]

RECURSIVE JoinComma(_)
JoinComma(parts) ==
    IF parts = <<>> THEN <<>>
    ELSE IF Len(parts) = 1 THEN parts[1]
    ELSE parts[1] \o <<",", " ">> \o JoinComma(Tail(parts))

JsonItems(v, items) ==
    IF v.kind = "dict"
    THEN <<"{">> \o JoinComma(items) \o <<"}">>
    ELSE <<"[">> \o JoinComma(items) \o <<"]">>

RECURSIVE JsonDumps(_)
JsonDumps(v) ==
    CASE v.kind = "none" -> <<"n", "u", "l", "l">>
      [] v.kind = "int" -> IntStr(v.val[1])
      [] v.kind = "str" -> JsonStr(v.val)
      [] v.kind = "list" ->
            JsonItems(v, [i \in 1..Len(v.val) |-> JsonDumps(v.val[i])])
      [] OTHER ->
            LET items == SortedItems(v.val)
            IN  JsonItems(v, [i \in 1..Len(items) |->
                    JsonStr(items[i][1]) \o <<":", " ">> \o JsonDumps(items[i][2])])

\* hashlib.sha256(...).hexdigest()[:16], a digest standing for its input
Sha256Hex16(hash_input) == <<"sha256:">> \o hash_input

NoHash == <<>>

HashInput(return_value) ==
    IF IsStr(return_value) THEN return_value.val ELSE JsonDumps(return_value)

ReturnValueHash(return_value) ==
    IF return_value = PyNone THEN NoHash ELSE Sha256Hex16(HashInput(return_value))

-----------------------------------------------------------------------------
(* GreenAgentController and TraceLedgerManager, as functions of the state   *)
(* they share: s.run_id is controller.run_id, s.traces is manager._traces   *)

Uuid(n) ==
    CASE n = 1 -> "uuid-1" [] n = 2 -> "uuid-2" [] n = 3 -> "uuid-3"
      [] n = 4 -> "uuid-4" [] n = 5 -> "uuid-5" [] OTHER -> "uuid-6"

NoLedger == [exists |-> FALSE, run_id |-> None, traces |-> <<>>]

LedgerState ==
    [run_id |-> controller_run_id, uuids |-> uuid_count, ledger |-> ledger,
     traces |-> _traces, heap |-> heap, queue |-> queue,
     history |-> history, run_start |-> run_start]

SetLedgerState(s) ==
    /\ controller_run_id' = s.run_id
    /\ uuid_count' = s.uuids
    /\ ledger' = s.ledger
    /\ _traces' = s.traces
    /\ heap' = s.heap
    /\ queue' = s.queue
    /\ history' = s.history
    /\ run_start' = s.run_start

\* GreenAgentController.start_run(run_id): the state after, run id included
start_run(s, run_id) ==
    IF run_id = None
    THEN [s EXCEPT !.uuids = s.uuids + 1, !.run_id = Uuid(s.uuids + 1)]
    ELSE [s EXCEPT !.run_id = run_id]

\* TraceLedgerManager.initialize(run_id)
initialize(s, run_id) ==
    LET s1 == IF run_id = None THEN start_run(s, None) ELSE s
        rid == IF run_id = None THEN s1.run_id ELSE run_id
    IN  [s1 EXCEPT !.ledger = [exists |-> TRUE, run_id |-> rid, traces |-> <<>>],
                   !.traces = <<>>,
                   !.run_start = Len(s.history)]

\* TraceLedgerManager.clear()
clear_keeps_traces(s) == [s EXCEPT !.ledger = NoLedger]
clear(s) ==
    [s EXCEPT !.ledger = NoLedger, !.traces = <<>>, !.run_start = Len(s.history)]

ToolCallTrace(run_id, tool_name, arguments, return_value, return_value_hash, error) ==
    [run_id |-> run_id, tool_name |-> tool_name, arguments |-> arguments,
     return_value |-> return_value, return_value_hash |-> return_value_hash,
     error |-> error]

\* the event record_tool_call puts; seq stamps the order of the put() calls
TraceUpdateEvent(trace, seq) ==
    [type |-> "trace_update", tool_name |-> trace.tool_name,
     return_value_hash |-> trace.return_value_hash, seq |-> seq]

\* TraceLedgerManager.record_tool_call(tool_name, arguments, return_value, error)
record_tool_call(s, tool_name, arguments, return_value, error) ==
    LET s1 == IF ~s.ledger.exists THEN initialize(s, None) ELSE s
        return_value_hash == ReturnValueHash(return_value)
        run_id == s1.run_id
        trace == ToolCallTrace(IF run_id = None THEN "unknown" ELSE run_id,
                               tool_name, arguments, return_value,
                               return_value_hash, error)
        ref == Len(s1.heap) + 1
    IN  [s1 EXCEPT !.heap = Append(s1.heap, trace),
                   !.traces = Append(s1.traces, ref),
                   !.ledger.traces = Append(s1.ledger.traces, ref),
                   !.history = Append(s1.history, trace),
                   !.queue = Append(s1.queue, TraceUpdateEvent(trace, Len(s1.history) + 1))]

\* TraceLedgerManager.get_traces(): a new list holding the same objects
get_traces(s) == s.traces

\* TraceLedgerManager.get_ledger(): refreshes ledger.traces from _traces
get_ledger(s) ==
    IF ~s.ledger.exists THEN s ELSE [s EXCEPT !.ledger.traces = s.traces]

\* the objects a list of references denotes
Deref(h, refs) == [i \in 1..Len(refs) |-> h[refs[i]]]

\* TraceLedgerManager.export_to_json(): the traces of the serialized ledger
export_to_json(s) ==
    IF ~s.ledger.exists THEN <<>> ELSE Deref(s.heap, get_ledger(s).ledger.traces)

-----------------------------------------------------------------------------
(* Initial states of the components *)

InitLedger ==
    /\ controller_run_id = None
    /\ uuid_count = 0
    /\ ledger = NoLedger
    /\ _traces = <<>>
    /\ heap = <<>>
    /\ queue = <<>>
    /\ view = <<>>
    /\ exported = <<>>
    /\ history = <<>>
    /\ run_start = 0
    /\ op = "init"

InitRunner ==
    /\ submitted = PyNone
    /\ entry_point = "none"
    /\ plan = <<>>
    /\ pc = "idle"
    /\ idx = 0
    /\ results = <<>>
    /\ invoked = <<>>
    /\ recorded = <<>>
    /\ outcome = "none"
    /\ fixtures_on = TRUE
    /\ run_no = 0
    /\ run_hashes = <<>>

InitSessions ==
    /\ sessions = <<>>
    /\ session_log = <<>>

\* Isolator.__init__()
InitIsolator ==
    /\ _global_state = <<>>
    /\ _local_state = <<>>
    /\ iso_pc = <<>>
    /\ set_since = <<>>

\* FixtureRegistry.__init__() on an empty fixture directory
InitRegistry ==
    /\ files = <<>>
    /\ _cache = <<>>
    /\ loads = <<>>
    /\ save_count = 0
    /\ saved = <<>>
    /\ fx_op = "none"

\* FixtureWrapper.__init__()
InitWrapper ==
    /\ w_pc = "idle"
    /\ w_call = <<>>
    /\ fixture_data = PyNone
    /\ w_log = <<>>
    /\ w_return = PyNone
    /\ w_calls = 0

\* no artifact was exported, no reader has read
NoFile == [exists |-> FALSE, content |-> <<>>]
ArtifactNames ==
    << "metrics.json", "leaderboard-row.json", "trace_ledger.json",
       "tool_results_bundle.json", "white_agent_output.json" >>
ArtifactSet == {ArtifactNames[i] : i \in 1..Len(ArtifactNames)}
NotExporting == [export |-> 0, file |-> 0, stage |-> "closed", white_agent_output |-> FALSE]
InitArtifacts ==
    /\ artifact_files = [name \in ArtifactSet |-> NoFile]
    /\ export_pc = NotExporting
    /\ write_buffer = <<>>
    /\ observed = <<>>

\* no Sandbox object exists
InitSandbox ==
    /\ socket_socket = "socket"
    /\ random_state = "ambient"
    /\ sandboxes = <<>>
    /\ socket_log = <<>>

\* no callback has been subscribed
NotSubscribed == [subscribed |-> FALSE, puts |-> 0]
InitSubscription == subscribed_at = [t \in (1..MaxRuns) |-> NotSubscribed]

\* the module integration as imported: the three dicts are empty
InitTracking ==
    /\ _tool_call_counts = <<>>
    /\ _tool_failures = <<>>
    /\ _tool_successes = <<>>
    /\ tool_log = <<>>
    /\ resets = 0

InitAdded == InitArtifacts /\ InitSandbox /\ InitSubscription /\ InitTracking

\* no pure function is being applied
InitFunctions ==
    /\ fn_args = <<>>
    /\ fn_returns = <<>>
    /\ fn_pc = "none"

InitHarness == InitIsolator /\ InitRegistry /\ InitWrapper /\ InitAdded /\ InitFunctions

InitQueue ==
    /\ _subscribers = <<>>
    /\ _running = FALSE
    /\ loops = <<>>
    /\ callers = <<>>
    /\ put_count = 0
    /\ delivered = <<>>
    /\ invocations = <<>>

-----------------------------------------------------------------------------
(* SpecLedger: the TraceLedgerManager API driven by a caller who also holds *)
(* the list returned by get_traces()                                        *)

QueryArgs == PyDict(<<<< <<"q">>, PyStr(<<"a">>) >>>>)

\* the calls recorded: a tool name and what the tool returned; two tools
\* return the same dict built in two insertion orders, one returns a string
ToolReturns ==
    { <<PyStr(<<"flight_search">>),
        PyDict(<< << <<"a">>, PyInt(1) >>, << <<"b">>, PyInt(2) >> >>)>>,
      <<PyStr(<<"hotel_search">>),
        PyDict(<< << <<"b">>, PyInt(2) >>, << <<"a">>, PyInt(1) >> >>)>>,
      <<PyStr(<<"flight_search">>), PyStr(<<"a">>)>> }

CallAllowed == Len(heap) < MaxCalls
RunAllowed == uuid_count < MaxRuns

Initialize ==
    /\ RunAllowed
    /\ SetLedgerState(initialize(LedgerState, None))
    /\ UNCHANGED <<runner_vars, session_vars, queue_vars, harness_vars>>
    /\ op' = "initialize"
    /\ exported' = <<>> /\ UNCHANGED view

RecordToolCall ==
    /\ CallAllowed
    /\ ledger.exists \/ RunAllowed
    /\ \E c \in ToolReturns :
          SetLedgerState(record_tool_call(LedgerState, c[1], QueryArgs, c[2], None))
    /\ UNCHANGED <<runner_vars, session_vars, queue_vars, harness_vars>>
    /\ op' = "record_tool_call"
    /\ exported' = <<>> /\ UNCHANGED view

\* a failed call: no return value, an error message
RecordFailedToolCall ==
    /\ CallAllowed
    /\ ledger.exists \/ RunAllowed
    /\ SetLedgerState(record_tool_call(LedgerState, PyStr(<<"hotel_search">>), QueryArgs,
                                       PyNone, "boom"))
    /\ UNCHANGED <<runner_vars, session_vars, queue_vars, harness_vars>>
    /\ op' = "record_tool_call"
    /\ exported' = <<>> /\ UNCHANGED view

\* the caller holds one returned list at a time
GetTraces ==
    /\ view = <<>>
    /\ view' = get_traces(LedgerState)
    /\ UNCHANGED <<runner_vars, session_vars, queue_vars, harness_vars>>
    /\ op' = "get_traces"
    /\ exported' = <<>>
    /\ UNCHANGED <<controller_run_id, uuid_count, ledger, _traces, heap, queue,
                   history, run_start>>

GetLedger ==
    /\ SetLedgerState(get_ledger(LedgerState))
    /\ UNCHANGED <<runner_vars, session_vars, queue_vars, harness_vars>>
    /\ op' = "get_ledger"
    /\ exported' = <<>> /\ UNCHANGED view

ExportToJson ==
    /\ SetLedgerState(get_ledger(LedgerState))
    /\ exported' = export_to_json(LedgerState)
    /\ UNCHANGED <<runner_vars, session_vars, queue_vars, harness_vars>>
    /\ op' = "export_to_json"
    /\ UNCHANGED view

Clear ==
    /\ SetLedgerState(clear(LedgerState))
    /\ UNCHANGED <<runner_vars, session_vars, queue_vars, harness_vars>>
    /\ op' = "clear"
    /\ exported' = <<>> /\ UNCHANGED view

\* the caller removes an element of the list get_traces() returned
CallerMutatesList ==
    /\ view # <<>>
    /\ view' = Tail(view)
    /\ UNCHANGED <<runner_vars, session_vars, queue_vars, harness_vars>>
    /\ op' = "caller_list"
    /\ exported' = <<>>
    /\ UNCHANGED <<controller_run_id, uuid_count, ledger, _traces, heap, queue,
                   history, run_start>>

\* the caller assigns a field of the first ToolCallTrace of that list
CallerMutatesTrace ==
    /\ view # <<>>
    /\ heap[view[1]].return_value # PyStr(<<"b">>)
    /\ heap' = [heap EXCEPT ![view[1]].return_value = PyStr(<<"b">>)]
    /\ UNCHANGED <<runner_vars, session_vars, queue_vars, harness_vars>>
    /\ op' = "caller_trace"
    /\ exported' = <<>>
    /\ UNCHANGED <<controller_run_id, uuid_count, ledger, _traces, queue, view,
                   history, run_start>>

NextLedger ==
    \/ Initialize
    \/ RecordToolCall
    \/ RecordFailedToolCall
    \/ GetTraces
    \/ GetLedger
    \/ ExportToJson
    \/ Clear
    \/ CallerMutatesList
    \/ CallerMutatesTrace

InitIdle == InitLedger /\ InitRunner /\ InitSessions /\ InitQueue /\ InitHarness

SpecLedger == InitIdle /\ [][NextLedger]_vars

-----------------------------------------------------------------------------
(* Claims about the ledger *)

\* the traces of the current run, as record_tool_call created them
RunHistory == SubSeq(history, run_start + 1, Len(history))

ManagerOps == {"record_tool_call", "get_traces", "get_ledger", "export_to_json"}

\* every trace recorded so far keeps its place, its identity and its content
RecordedTracesKept ==
    /\ Len(_traces') >= Len(_traces)
    /\ \A i \in 1..Len(_traces) :
          /\ _traces'[i] = _traces[i]
          /\ heap'[_traces[i]] = heap[_traces[i]]

\* C1: within one run get_traces() has as many elements as record_tool_call
\* was called since the last initialize()/clear(); no method of the manager
\* other than clear() and initialize() shortens the list or changes or
\* removes a recorded trace; clear() leaves the list empty.
C1_LedgerAppendOnly ==
    /\ [](Len(get_traces(LedgerState)) = Len(history) - run_start)
    /\ [][op' \in ManagerOps => RecordedTracesKept]_vars
    /\ [][op' = "clear" => Len(get_traces(LedgerState))' = 0]_vars

C1_Witness ==
    /\ op = "record_tool_call"
    /\ Len(get_traces(LedgerState)) >= 2
    /\ run_start = 0

\* C6: whatever the caller does to the list get_traces() returned, or to the
\* trace objects in it, get_traces() and export_to_json() still yield the
\* traces as they were recorded.
C6_HistoryImmutable ==
    /\ Deref(heap, get_traces(LedgerState)) = RunHistory
    /\ op = "export_to_json" => exported = RunHistory

-----------------------------------------------------------------------------
(* ToolRegistry *)

Str1(piece) == PyStr(<<piece>>)

\* ToolRegistry._initialize_default_tools: every tool requires a str "query"
AllowedTools == {"flight_search", "hotel_search", "restaurant_search", "weather"}
RequiredArg == <<"query">>

\* a list or a dict cannot be looked up in a dict: `x in self._tools` raises
Hashable(v) == v.kind \notin {"list", "dict"}

\* ToolRegistry.is_allowed(tool_name), for a hashable tool_name
is_allowed(tool_name) == IsStr(tool_name) /\ Len(tool_name.val) = 1
                         /\ tool_name.val[1] \in AllowedTools

IsSpace(c) == c = " "

\* value.strip() of a str
RECURSIVE LStrip(_)
LStrip(s) == IF s # <<>> /\ IsSpace(s[1]) THEN LStrip(Tail(s)) ELSE s
RECURSIVE RStrip(_)
RStrip(s) ==
    IF s # <<>> /\ IsSpace(s[Len(s)]) THEN RStrip(SubSeq(s, 1, Len(s) - 1)) ELSE s
Strip(s) == RStrip(LStrip(s))

Verdict(ok, error) == [raised |-> FALSE, ok |-> ok, error |-> error]
Raised(error) == [raised |-> TRUE, ok |-> FALSE, error |-> error]

\* `req_arg not in args` and `args[req_arg]` for args of any type
\* (ToolRegistry.validate_tool_call does not check that args is a dict)
ArgIn(args) ==
    CASE args.kind = "dict" -> DictHas(args, RequiredArg)
      [] args.kind = "list" -> \E i \in 1..Len(args.val) : args.val[i] = PyStr(RequiredArg)
      [] args.kind = "str" -> \E i \in 1..Len(args.val) : args.val[i] = RequiredArg[1]
      [] OTHER -> FALSE

\* ToolRegistry.validate_tool_call(tool_name, args)
validate_tool_call(tool_name, args) ==
    IF ~Hashable(tool_name) THEN Raised("TypeError")
    ELSE IF ~is_allowed(tool_name) THEN Verdict(FALSE, "not in the allow-list")
    ELSE IF args.kind \in {"int", "none"} THEN Raised("TypeError")
    ELSE IF ~ArgIn(args) THEN Verdict(FALSE, "Missing required argument")
    ELSE IF args.kind # "dict" THEN Raised("TypeError")
    ELSE LET value == DictItem(args, RequiredArg)
         IN  IF value = PyNone \/ (IsStr(value) /\ Strip(value.val) = <<>>)
             THEN Verdict(FALSE, "Required argument is empty")
             ELSE IF ~IsStr(value)
             THEN Verdict(FALSE, "Argument must be of type str")
             ELSE Verdict(TRUE, None)

-----------------------------------------------------------------------------
(* ToolRunner *)

\* the tools register_tool() was called for: ToolRunner._tool_functions
RegisteredFunctions == {"flight_search"}

\* (tool, query) pairs that have a fixture file for the run's seed
Fixtures == { <<"flight_search", <<"NYC">> >>, <<"flight_search", <<"SFO">> >> }

\* what the registered live function does when called: returns or raises
Returns(value) == [raises |-> FALSE, value |-> value]
Raises == [raises |-> TRUE, value |-> PyNone]
LiveOutcomes == { Returns(Str1("live-1")), Returns(Str1("live-2")), Raises }

Result(success, result, error) ==
    [success |-> success, result |-> result, error |-> error]

\* what one step of the runner did: the ledger state after it, whether an
\* exception left it, the result it returned, and how often it called the
\* tool function
Step(s, raised, result, calls) ==
    [s |-> s, raised |-> raised, result |-> result, calls |-> calls]

\* ToolRunner.execute_tool_call(tool_name, arguments); live is what the
\* registered function does if it is called
execute_tool_call(s, tool_name, arguments, live) ==
    LET v == validate_tool_call(tool_name, arguments)
    IN  IF v.raised
        THEN Step(s, TRUE, Result(FALSE, PyNone, v.error), 0)
        ELSE IF ~v.ok
        THEN Step(record_tool_call(s, tool_name, arguments, PyNone, v.error),
                  FALSE, Result(FALSE, PyNone, v.error), 0)
        ELSE IF tool_name.val[1] \notin RegisteredFunctions
        THEN Step(record_tool_call(s, tool_name, arguments, PyNone, "not registered"),
                  FALSE, Result(FALSE, PyNone, "not registered"), 0)
        ELSE IF live.raises
        THEN Step(record_tool_call(s, tool_name, arguments, PyNone, "tool error"),
                  FALSE, Result(FALSE, PyNone, "tool error"), 1)
        ELSE Step(record_tool_call(s, tool_name, arguments, live.value, None),
                  FALSE, Result(TRUE, live.value, None), 1)

\* a or b
PyOr(a, b) == IF Truthy(a) THEN a ELSE b

K(name) == <<name>>

\* the body of the loop of ToolRunner.execute_plan for one entry
execute_plan_entry(s, call, live) ==
    IF call.kind # "dict"
    THEN Step(s, TRUE, Result(FALSE, PyNone, "AttributeError"), 0)
    ELSE LET tool_name == PyOr(DictGet(call, K("tool")), DictGet(call, K("tool_name")))
             args == PyOr(PyOr(DictGet(call, K("args")), DictGet(call, K("arguments"))),
                          PyDict(<<>>))
         IN  IF ~Truthy(tool_name)
             THEN Step(s, FALSE, Result(FALSE, PyNone, "Missing tool name in tool call"), 0)
             ELSE execute_tool_call(s, tool_name, args, live)

-----------------------------------------------------------------------------
(* PlanNormalizer *)

Digits == {"0", "1", "2", "3", "4", "5", "6", "7", "8", "9"}
Markers == {"*", "_"}
\* the characters U+2192 and U+21D2
Arrows == {"U+2192", "U+21D2"}
Punctuation == {" ", "/", "-", "+", ">", "[", "]", "(", ")", ":", ","}

\* a piece that is one or more letters
IsLetters(c) == c \notin Digits \cup Markers \cup Arrows \cup Punctuation
\* the single letters of the model; every other letter piece is a longer word
SingleLetters == {"a", "b", "q", "x"}
CharLen(c) == IF IsLetters(c) /\ c \notin SingleLetters THEN 3 ELSE 1

RECURSIVE StrLen(_)
StrLen(s) == IF s = <<>> THEN 0 ELSE CharLen(s[1]) + StrLen(Tail(s))

\* the first index i >= from with s[i] in set, or 0
RECURSIVE FirstIn(_, _, _)
FirstIn(s, from, set) ==
    IF from > Len(s) THEN 0
    ELSE IF s[from] \in set THEN from
    ELSE FirstIn(s, from + 1, set)

\* the first index i >= from with s[i] not in set, or Len(s) + 1
RECURSIVE FirstNotIn(_, _, _)
FirstNotIn(s, from, set) ==
    IF from > Len(s) THEN Len(s) + 1
    ELSE IF s[from] \notin set THEN from
    ELSE FirstNotIn(s, from + 1, set)

NoMatch == [len |-> 0, group |-> <<>>]

\* re.sub(pattern, r'\1', s) for a pattern whose match at the start of a
\* string is given by MatchAt: leftmost matches, not overlapping
RECURSIVE SubLinks(_)
RECURSIVE SubMarkers(_)

\* \[([^\]]+)\]\([^\)]+\) at the start of s
LinkMatch(s) ==
    IF s = <<>> \/ s[1] # "[" THEN NoMatch
    ELSE LET j == FirstIn(s, 2, {"]"})
         IN  IF j < 3 \/ j + 1 > Len(s) \/ s[j + 1] # "(" THEN NoMatch
             ELSE LET k == FirstIn(s, j + 2, {")"})
                  IN  IF k < j + 3 THEN NoMatch
                      ELSE [len |-> k, group |-> SubSeq(s, 2, j - 1)]

SubLinks(s) ==
    IF s = <<>> THEN <<>>
    ELSE LET m == LinkMatch(s)
         IN  IF m.len > 0
             THEN m.group \o SubLinks(SubSeq(s, m.len + 1, Len(s)))
             ELSE <<s[1]>> \o SubLinks(Tail(s))

\* [*_]{1,2}([^*_]+)[*_]{1,2} at the start of s
MarkerMatch(s) ==
    IF s = <<>> \/ s[1] \notin Markers THEN NoMatch
    ELSE LET open == IF Len(s) >= 2 /\ s[2] \in Markers THEN 2 ELSE 1
             g == open + 1
             e == FirstIn(s, g, Markers)
         IN  IF g > Len(s) \/ s[g] \in Markers \/ e = 0 THEN NoMatch
             ELSE LET close == IF e + 1 <= Len(s) /\ s[e + 1] \in Markers THEN 2 ELSE 1
                  IN  [len |-> e + close - 1, group |-> SubSeq(s, g, e - 1)]

SubMarkers(s) ==
    IF s = <<>> THEN <<>>
    ELSE LET m == MarkerMatch(s)
         IN  IF m.len > 0
             THEN m.group \o SubMarkers(SubSeq(s, m.len + 1, Len(s)))
             ELSE <<s[1]>> \o SubMarkers(Tail(s))

\* re.sub(r'[→⇒]', '>', s)
SubArrows(s) == [i \in 1..Len(s) |-> IF s[i] \in Arrows THEN ">" ELSE s[i]]

\* PlanNormalizer.normalize_string on the text of a str
normalize_string(s) == SubMarkers(SubLinks(SubArrows(Strip(s))))

\* re.match(r'^\d{4}-\d{2}-\d{2}$', s)
IsIsoDate(s) ==
    /\ Len(s) = 10
    /\ \A i \in {1, 2, 3, 4, 6, 7, 9, 10} : s[i] \in Digits
    /\ s[5] = "-" /\ s[8] = "-"

\* s.split('/')
RECURSIVE SplitSlash(_)
SplitSlash(s) ==
    LET j == FirstIn(s, 1, {"/"})
    IN  IF j = 0 THEN <<s>>
        ELSE <<SubSeq(s, 1, j - 1)>> \o SplitSlash(SubSeq(s, j + 1, Len(s)))

\* s.zfill(2)
ZFill2(s) ==
    IF StrLen(s) >= 2 THEN s
    ELSE IF s = <<>> THEN <<"0", "0">>
    ELSE IF s[1] \in {"+", "-"} THEN <<s[1], "0">>
    ELSE <<"0">> \o s

\* word.lower()[:3] of the words of the model
Prefix3(word) ==
    CASE word \in {"Jan", "January"} -> "jan"
      [] word \in {"Feb"} -> "feb"
      [] word \in {"Mar", "March", "Market"} -> "mar"
      [] word \in {"Apr"} -> "apr"
      [] word \in {"May"} -> "may"
      [] word \in {"Jun", "June"} -> "jun"
      [] word \in {"Jul"} -> "jul"
      [] word \in {"Aug"} -> "aug"
      [] word \in {"Sep"} -> "sep"
      [] word \in {"Oct"} -> "oct"
      [] word \in {"Nov"} -> "nov"
      [] word \in {"Dec", "December", "Decent"} -> "dec"
      [] OTHER -> "other"

\* month_names.get(prefix), <<>> standing for None
month_names(prefix) ==
    CASE prefix = "jan" -> <<"0", "1">> [] prefix = "feb" -> <<"0", "2">>
      [] prefix = "mar" -> <<"0", "3">> [] prefix = "apr" -> <<"0", "4">>
      [] prefix = "may" -> <<"0", "5">> [] prefix = "jun" -> <<"0", "6">>
      [] prefix = "jul" -> <<"0", "7">> [] prefix = "aug" -> <<"0", "8">>
      [] prefix = "sep" -> <<"0", "9">> [] prefix = "oct" -> <<"1", "0">>
      [] prefix = "nov" -> <<"1", "1">> [] prefix = "dec" -> <<"1", "2">>
      [] OTHER -> <<>>

\* datetime.now().year, formatted
CurrentYear == <<"2", "0", "2", "6">>

\* re.match(r'([a-z]+)\s+(\d+)', s.lower()): where the name ends, where
\* the day starts and where it ends; ok tells whether the pattern matches
MonthDayMatch(s) ==
    LET a == FirstNotIn(s, 1, {c \in {s[i] : i \in 1..Len(s)} : IsLetters(c)})
        b == FirstNotIn(s, a, {" "})
        c == FirstNotIn(s, b, Digits)
    IN  [ok |-> a > 1 /\ b > a /\ c > b, name_end |-> a - 1,
         day_start |-> b, day_end |-> c - 1]

\* PlanNormalizer.normalize_date on the text of a str. The single letters
\* of the model spell no month prefix, so only a word can name a month.
normalize_date(date_str) ==
    LET d == Strip(date_str)
        parts == SplitSlash(d)
        m == MonthDayMatch(d)
        month == IF m.ok /\ d[1] \notin SingleLetters
                 THEN month_names(Prefix3(d[1])) ELSE <<>>
    IN  IF IsIsoDate(d) THEN d
        ELSE IF Len(parts) = 3
        THEN parts[3] \o <<"-">> \o ZFill2(parts[1]) \o <<"-">> \o ZFill2(parts[2])
        ELSE IF month # <<>>
        THEN CurrentYear \o <<"-">> \o month \o <<"-">>
                 \o ZFill2(SubSeq(d, m.day_start, m.day_end))
        ELSE d

\* PlanNormalizer.normalize_value
RECURSIVE normalize_value(_)
normalize_value(value) ==
    CASE value.kind = "str" ->
            LET normalized == normalize_date(value.val)
            IN  IF normalized # value.val THEN PyStr(normalized)
                ELSE PyStr(normalize_string(value.val))
      [] value.kind = "dict" ->
            PyDict([i \in 1..Len(value.val) |->
                       <<value.val[i][1], normalize_value(value.val[i][2])>>])
      [] value.kind = "list" ->
            PyList([i \in 1..Len(value.val) |-> normalize_value(value.val[i])])
      [] OTHER -> value

-----------------------------------------------------------------------------
(* The plans the model submits *)

Query(s) == PyDict(<< <<K("query"), s>> >>)
Call(tool, args) == PyDict(<< <<K("tool"), tool>>, <<K("args"), args>> >>)

Entries ==
    { \* valid, with a registered function; normalization trims the query
      Call(Str1("flight_search"), Query(PyStr(<<" ", "SFO">>))),
      \* valid, the query made of markdown markers and whitespace only
      Call(Str1("flight_search"), Query(PyStr(<<"*", " ", "*">>))),
      \* allowed, but no function registered; written with the other keys
      PyDict(<< <<K("tool_name"), Str1("hotel_search")>>,
                <<K("arguments"), Query(Str1("NYC"))>> >>),
      \* not in the allow-list
      Call(Str1("unknown_tool"), Query(Str1("NYC"))),
      \* required argument missing, empty, of the wrong type
      Call(Str1("flight_search"), PyDict(<<>>)),
      Call(Str1("flight_search"), Query(PyStr(<<" ">>))),
      Call(Str1("flight_search"), Query(PyInt(5))),
      \* no tool name
      PyDict(<< <<K("args"), Query(Str1("NYC"))>> >>),
      \* args that is not a dict
      Call(Str1("flight_search"), PyList(<<PyStr(RequiredArg)>>)),
      \* an entry that is not a dict
      Str1("flight_search"),
      \* a tool name that is a list
      Call(PyList(<<Str1("flight_search")>>), Query(Str1("NYC"))) }

\* the lists of 1..n entries
RECURSIVE ListsUpTo(_)
ListsUpTo(n) ==
    IF n = 0 THEN {<<>>}
    ELSE LET shorter == ListsUpTo(n - 1)
         IN  shorter \cup {Append(l, e) : l \in shorter, e \in Entries}

PlanLists == {PyList(l) : l \in ListsUpTo(MaxPlanLen)}

\* plans given as text: one that is no JSON, and the JSON of two lists
TextPlans ==
    { Str1("not json"),
      PyStr(JsonDumps(PyList(<<Call(Str1("flight_search"), Query(Str1("NYC")))>>))),
      PyStr(JsonDumps(PyList(<<Call(Str1("unknown_tool"), PyDict(<<>>))>>))) }

\* what is not a list
OtherPlans == { PyDict(<<>>) }

\* json.loads on the texts of the model: the value whose JSON the text is
JsonDomain ==
    { PyList(<<Call(Str1("flight_search"), Query(Str1("NYC")))>>),
      PyList(<<Call(Str1("unknown_tool"), PyDict(<<>>))>>) }
JsonValid(text) == \E v \in JsonDomain : JsonDumps(v) = text
JsonLoads(text) == CHOOSE v \in JsonDomain : JsonDumps(v) = text

-----------------------------------------------------------------------------
(* PlanValidator *)

Invalid(reason, i) ==
    [is_valid |-> FALSE, raised |-> FALSE, error |-> <<reason, i>>, plan |-> <<>>]
Valid(calls) == [is_valid |-> TRUE, raised |-> FALSE, error |-> <<>>, plan |-> calls]
\* an exception leaves validate_plan at call i: nothing is returned
ValidateRaised(reason, i) ==
    [is_valid |-> FALSE, raised |-> TRUE, error |-> <<reason, i>>, plan |-> <<>>]

\* the checks of PlanValidator.validate_plan on call i: the reason of the
\* first one that fails, "TypeError" if is_allowed raises, or "ok"
CheckCall(call) ==
    IF call.kind # "dict" THEN "must be a dictionary"
    ELSE LET tool_name == PyOr(DictGet(call, K("tool")), DictGet(call, K("tool_name")))
             args == PyOr(PyOr(DictGet(call, K("args")), DictGet(call, K("arguments"))),
                          PyDict(<<>>))
         IN  IF ~Truthy(tool_name) THEN "missing 'tool' or 'tool_name' field"
             ELSE IF ~Hashable(tool_name) THEN "TypeError"
             ELSE IF ~is_allowed(tool_name) THEN "is not allowed"
             ELSE IF args.kind # "dict" THEN "'args' must be a dictionary"
             ELSE IF ~validate_tool_call(tool_name, args).ok
             THEN validate_tool_call(tool_name, args).error
             ELSE "ok"

NormalizedCall(call) ==
    LET tool_name == PyOr(DictGet(call, K("tool")), DictGet(call, K("tool_name")))
        args == PyOr(PyOr(DictGet(call, K("args")), DictGet(call, K("arguments"))),
                     PyDict(<<>>))
    IN  Call(tool_name, normalize_value(args))

\* the loop of validate_plan from call i on, normalized_calls collected so far
RECURSIVE ValidateCalls(_, _, _)
ValidateCalls(calls, i, normalized_calls) ==
    IF i > Len(calls) THEN Valid(normalized_calls)
    ELSE IF CheckCall(calls[i]) = "TypeError"
    THEN ValidateRaised("TypeError", i - 1)
    ELSE IF CheckCall(calls[i]) # "ok"
    THEN Invalid(CheckCall(calls[i]), i - 1)
    ELSE ValidateCalls(calls, i + 1, Append(normalized_calls, NormalizedCall(calls[i])))

\* PlanValidator.validate_plan(plan, allow_normalization=True)
validate_plan(p) ==
    IF IsStr(p) /\ ~JsonValid(p.val)
    THEN Invalid("Plan must be valid JSON, not natural language", 0)
    ELSE LET parsed == IF IsStr(p) THEN JsonLoads(p.val) ELSE p
         IN  IF parsed.kind # "list" THEN Invalid("Plan must be a list of tool calls", 0)
             ELSE IF Len(parsed.val) = 0 THEN Invalid("Plan cannot be empty", 0)
             ELSE ValidateCalls(parsed.val, 1, <<>>)

-----------------------------------------------------------------------------
(* Spec: GreenAgent and ToolRunner executing a submitted plan                *)

PlanInputs == PlanLists \cup TextPlans \cup OtherPlans

\* GreenAgent(seed, use_fixtures=...) and the plan its caller will submit
InitInputs ==
    /\ submitted \in PlanInputs
    /\ entry_point \in {"execute_plan", "validate_and_execute_plan"}
    /\ entry_point = "execute_plan" => submitted \in PlanLists
    /\ fixtures_on = TRUE
    /\ plan = <<>>
    /\ pc = "idle"
    /\ idx = 0
    /\ results = <<>>
    /\ invoked = <<>>
    /\ recorded = <<>>
    /\ outcome = "none"
    /\ run_no = 0
    /\ run_hashes = <<>>

\* GreenAgent.start_run(): controller.start_run() and ledger.initialize(run_id)
green_start_run(s) ==
    LET s1 == start_run(s, None)
    IN  initialize(s1, s1.run_id)

\* start_run() before the plan is submitted
StartRun ==
    /\ pc = "idle"
    /\ run_no = 0
    /\ SetLedgerState(green_start_run(LedgerState))
    /\ run_no' = run_no + 1
    /\ pc' = "idle"
    /\ plan' = <<>>
    /\ idx' = 0
    /\ results' = <<>>
    /\ invoked' = <<>>
    /\ recorded' = <<>>
    /\ outcome' = "none"
    /\ UNCHANGED <<session_vars, queue_vars, harness_vars>>
    /\ op' = "start_run"
    /\ UNCHANGED <<view, exported, submitted, entry_point, fixtures_on, run_hashes>>

\* ToolRunner.execute_plan(tool_calls) is entered
ExecutePlan ==
    /\ pc = "idle"
    /\ entry_point = "execute_plan"
    /\ plan' = submitted.val
    /\ pc' = "executing"
    /\ UNCHANGED <<session_vars, queue_vars, harness_vars>>
    /\ op' = "execute_plan"
    /\ UNCHANGED <<controller_run_id, uuid_count, ledger, _traces, heap, queue,
                   view, exported, history, run_start, submitted, entry_point,
                   idx, results, invoked, recorded, outcome, fixtures_on,
                   run_no, run_hashes>>

\* GreenAgent.validate_and_execute_plan(plan) up to the call of execute_plan
ValidateAndExecutePlan ==
    /\ pc = "idle"
    /\ entry_point = "validate_and_execute_plan"
    /\ LET v == validate_plan(submitted)
       IN  IF v.is_valid
           THEN /\ plan' = v.plan
                /\ pc' = "executing"
                /\ outcome' = "none"
           ELSE /\ plan' = <<>>
                /\ pc' = "done"
                /\ outcome' = IF v.raised THEN "raised" ELSE "rejected"
    /\ UNCHANGED <<session_vars, queue_vars, harness_vars>>
    /\ op' = "validate_and_execute_plan"
    /\ UNCHANGED <<controller_run_id, uuid_count, ledger, _traces, heap, queue,
                   view, exported, history, run_start, submitted, entry_point,
                   idx, results, invoked, recorded, fixtures_on, run_no,
                   run_hashes>>

\* one iteration of the loop of execute_plan
ExecuteEntry ==
    /\ pc = "executing"
    /\ idx < Len(plan)
    /\ \E live \in LiveOutcomes :
          LET st == execute_plan_entry(LedgerState, plan[idx + 1], live)
          IN  /\ SetLedgerState(st.s)
              /\ idx' = idx + 1
              /\ invoked' = Append(invoked, st.calls)
              /\ recorded' = Append(recorded, Len(st.s.traces) - Len(_traces))
              /\ IF st.raised
                 THEN /\ pc' = "done"
                      /\ outcome' = "raised"
                      /\ results' = results
                 ELSE /\ pc' = "executing"
                      /\ outcome' = outcome
                      /\ results' = Append(results, st.result)
    /\ UNCHANGED <<session_vars, queue_vars, harness_vars>>
    /\ op' = "execute_entry"
    /\ UNCHANGED <<view, exported, submitted, entry_point, plan, fixtures_on,
                   run_no, run_hashes>>

\* execute_plan returns its results
ReturnResults ==
    /\ pc = "executing"
    /\ idx = Len(plan)
    /\ pc' = "done"
    /\ outcome' = "returned"
    /\ run_hashes' = Append(run_hashes,
           [i \in 1..Len(_traces) |-> heap[_traces[i]].return_value_hash])
    /\ UNCHANGED <<session_vars, queue_vars, harness_vars>>
    /\ op' = "return"
    /\ UNCHANGED <<controller_run_id, uuid_count, ledger, _traces, heap, queue,
                   view, exported, history, run_start, submitted, entry_point,
                   plan, idx, results, invoked, recorded, fixtures_on, run_no>>

Next ==
    \/ StartRun
    \/ ExecutePlan
    \/ ValidateAndExecutePlan
    \/ ExecuteEntry
    \/ ReturnResults

Init == InitLedger /\ InitInputs /\ InitSessions /\ InitQueue /\ InitHarness

Spec == Init /\ [][Next]_vars

-----------------------------------------------------------------------------
(* SpecRuns: full runs of one valid plan, one after the other, on the same  *)
(* GreenAgent (same seed), every call of the plan having a fixture          *)

FixtureEntries ==
    { Call(Str1("flight_search"), Query(PyStr(<<" ", "SFO">>))),
      Call(Str1("flight_search"), Query(Str1("NYC"))) }

RECURSIVE FixtureListsUpTo(_)
FixtureListsUpTo(n) ==
    IF n = 0 THEN {<<>>}
    ELSE LET shorter == FixtureListsUpTo(n - 1)
         IN  shorter \cup {Append(l, e) : l \in shorter, e \in FixtureEntries}

InitRuns ==
    /\ submitted \in {PyList(l) : l \in FixtureListsUpTo(MaxPlanLen) \ {<<>>}}
    /\ entry_point = "validate_and_execute_plan"
    /\ fixtures_on = TRUE
    /\ plan = <<>>
    /\ pc = "idle"
    /\ idx = 0
    /\ results = <<>>
    /\ invoked = <<>>
    /\ recorded = <<>>
    /\ outcome = "none"
    /\ run_no = 0
    /\ run_hashes = <<>>

\* start_run() after a run, for the next run of the same plan
StartNextRun ==
    /\ pc = "done"
    /\ run_no < MaxRuns
    /\ SetLedgerState(green_start_run(LedgerState))
    /\ run_no' = run_no + 1
    /\ pc' = "idle"
    /\ plan' = <<>>
    /\ idx' = 0
    /\ results' = <<>>
    /\ invoked' = <<>>
    /\ recorded' = <<>>
    /\ outcome' = "none"
    /\ UNCHANGED <<session_vars, queue_vars, harness_vars>>
    /\ op' = "start_run"
    /\ UNCHANGED <<view, exported, submitted, entry_point, fixtures_on, run_hashes>>

NextRuns ==
    \/ StartRun
    \/ StartNextRun
    \/ ValidateAndExecutePlan
    \/ ExecuteEntry
    \/ ReturnResults

InitTwoRuns == InitLedger /\ InitRuns /\ InitSessions /\ InitQueue /\ InitHarness

SpecRuns == InitTwoRuns /\ [][NextRuns]_vars

-----------------------------------------------------------------------------
(* Claims about ToolRunner, PlanValidator and GreenAgent *)

EntryTool(call) == PyOr(DictGet(call, K("tool")), DictGet(call, K("tool_name")))
EntryArgs(call) ==
    PyOr(PyOr(DictGet(call, K("args")), DictGet(call, K("arguments"))), PyDict(<<>>))

\* a plan entry as the data model has it: a dict whose args are a dict
WellFormed(call) == call.kind = "dict" /\ EntryArgs(call).kind = "dict"
HasToolName(call) == Truthy(EntryTool(call))

\* the entries execute_plan has consumed so far
Consumed == SubSeq(plan, 1, idx)

\* C2: every entry of the plan that execute_plan has gone through appended
\* exactly one trace to the ledger (whether it succeeded, failed validation,
\* had no registered function, had no tool name, or its tool raised) and
\* had its tool function called at most once.
C2_OneTracePerEntry ==
    \A i \in 1..Len(recorded) :
        WellFormed(plan[i]) => recorded[i] = 1 /\ invoked[i] <= 1

\* what the result of an entry must look like, given the entry
ResultBelongsTo(r, call) ==
    /\ ~HasToolName(call) =>
          ~r.success /\ r.error = "Missing tool name in tool call"
    /\ HasToolName(call) /\ ~is_allowed(EntryTool(call)) =>
          ~r.success /\ r.error = "not in the allow-list"
    /\ HasToolName(call) /\ is_allowed(EntryTool(call)) /\ CheckCall(call) # "ok" =>
          ~r.success /\ r.error = CheckCall(call)
    /\ CheckCall(call) = "ok" /\ EntryTool(call).val[1] \notin RegisteredFunctions =>
          ~r.success /\ r.error = "not registered"
    /\ CheckCall(call) = "ok" /\ EntryTool(call).val[1] \in RegisteredFunctions =>
          \/ r.success /\ r.error = None /\ r.result # PyNone
          \/ ~r.success /\ r.error = "tool error"

\* C3: ToolRunner.execute_plan goes through the entries in plan order and to the end,
\* whatever fails on the way (a disallowed tool, an argument mismatch, an
\* unregistered function, a tool exception): it returns one result per
\* entry, result i being that of entry i, and the traces in the ledger are
\* those of the entries that name a tool, in plan order.
C3_ResultsInPlanOrder ==
    entry_point = "execute_plan" /\ pc \in {"executing", "done"} =>
        LET named == SelectSeq(Consumed, HasToolName)
        IN  /\ outcome # "raised"
            /\ pc = "done" => idx = Len(plan) /\ outcome = "returned"
            /\ Len(results) = idx
            /\ \A i \in 1..idx : ResultBelongsTo(results[i], plan[i])
            /\ Len(_traces) = Len(named)
            /\ \A j \in 1..Len(named) :
                  /\ heap[_traces[j]].tool_name = EntryTool(named[j])
                  /\ heap[_traces[j]].arguments = EntryArgs(named[j])

\* C4: ToolRunner.execute_plan never raises to its caller, whatever the
\* plan holds.
C4_NeverRaises == entry_point = "execute_plan" => outcome # "raised"

\* the list validate_plan iterates over: the plan, parsed if it is text
ParsedPlan(p) == IF IsStr(p) /\ JsonValid(p.val) THEN JsonLoads(p.val) ELSE p
IsCallList(p) == ParsedPlan(p).kind = "list" /\ Len(ParsedPlan(p).val) > 0

\* C5: validate_plan accepts a plan only if every call passes every check,
\* and then returns one normalized call per call, in order; otherwise it
\* returns no plan and the reason of the first check that fails, and
\* validate_and_execute_plan calls no tool and appends no trace.
C5_AllOrNothing ==
    entry_point = "validate_and_execute_plan" /\ pc # "idle" =>
        LET v == validate_plan(submitted)
            calls == ParsedPlan(submitted).val
        IN  /\ ~v.raised /\ outcome # "raised"
            /\ v.is_valid =>
                  /\ IsCallList(submitted)
                  /\ Len(v.plan) = Len(calls)
                  /\ \A i \in 1..Len(calls) :
                        /\ CheckCall(calls[i]) = "ok"
                        /\ v.plan[i] = NormalizedCall(calls[i])
                  /\ v.error = <<>>
                  /\ outcome # "rejected"
                  /\ plan = v.plan
            /\ ~v.is_valid =>
                  /\ v.plan = <<>>
                  /\ IsCallList(submitted) =>
                        \E i \in 1..Len(calls) :
                            /\ \A j \in 1..(i - 1) : CheckCall(calls[j]) = "ok"
                            /\ CheckCall(calls[i]) # "ok"
                            /\ v.error = <<CheckCall(calls[i]), i - 1>>
                  /\ outcome = "rejected"
                  /\ pc = "done"
                  /\ invoked = <<>> /\ results = <<>>
                  /\ _traces = <<>> /\ history = <<>>

\* the fixture registry holds a response for the call
HasFixture(call) ==
    /\ CheckCall(call) = "ok"
    /\ <<EntryTool(call).val[1],
         DictItem(EntryArgs(NormalizedCall(call)), RequiredArg).val>> \in Fixtures

\* C8: two full runs of the same plan with the same seed, with
\* use_fixtures=True and a fixture for every call, leave the same
\* return_value_hash sequence, whatever the live tool function returns.
C8_SameHashesAcrossRuns ==
    /\ fixtures_on
    /\ submitted.kind = "list"
    /\ \A i \in 1..Len(submitted.val) : HasFixture(submitted.val[i])
    => \A r1, r2 \in 1..Len(run_hashes) : run_hashes[r1] = run_hashes[r2]

-----------------------------------------------------------------------------
(* SpecSessions: the /ws/green sessions of api_server.py, which all use the *)
(* module-level green_controller and trace_ledger_manager                   *)

SessionIds == 1..MaxRuns

\* api_server.py at import: green_controller.start_run(), then
\* trace_ledger_manager.initialize()
ServerState ==
    initialize(start_run([run_id |-> None, uuids |-> 0, ledger |-> NoLedger,
                          traces |-> <<>>, heap |-> <<>>, queue |-> <<>>,
                          history |-> <<>>, run_start |-> 0], None), None)

InitServer ==
    /\ controller_run_id = ServerState.run_id
    /\ uuid_count = ServerState.uuids
    /\ ledger = ServerState.ledger
    /\ _traces = <<>>
    /\ heap = <<>>
    /\ queue = <<>>
    /\ view = <<>>
    /\ exported = <<>>
    /\ history = <<>>
    /\ run_start = 0
    /\ op = "init"
    /\ sessions = [i \in SessionIds |-> [pc |-> "closed", run_id |-> None, final |-> <<>>]]
    /\ session_log = [i \in SessionIds |-> <<>>]

\* a client connects: controller.start_run(); ledger.clear();
\* ledger.initialize(run_id), with no await in between
SessionConnect(i) ==
    /\ sessions[i].pc = "closed"
    /\ LET s1 == start_run(LedgerState, None)
           s2 == initialize(clear(s1), s1.run_id)
       IN  /\ SetLedgerState(s2)
           /\ sessions' = [sessions EXCEPT ![i].pc = "connected", ![i].run_id = s1.run_id]
    /\ op' = "session_connect"
    /\ UNCHANGED <<view, exported, session_log, runner_vars, queue_vars, harness_vars>>

\* the session's loop receives a message and awaits green_agent.process_message
SessionReceive(i) ==
    /\ sessions[i].pc \in {"connected", "answered"}
    /\ sessions' = [sessions EXCEPT ![i].pc = "processing"]
    /\ op' = "session_receive"
    /\ UNCHANGED <<controller_run_id, uuid_count, ledger, _traces, heap, queue, history,
                   run_start, view, exported, session_log, runner_vars, queue_vars, harness_vars>>

\* a wrapped tool of the agent records its call while the message is processed
SessionToolCall(i) ==
    /\ sessions[i].pc = "processing"
    /\ CallAllowed
    /\ \E c \in ToolReturns :
          SetLedgerState(record_tool_call(LedgerState, c[1], QueryArgs, c[2], None))
    /\ session_log' = [session_log EXCEPT ![i] = Append(@, Len(heap) + 1)]
    /\ op' = "session_tool_call"
    /\ UNCHANGED <<view, exported, sessions, runner_vars, queue_vars, harness_vars>>

\* processing is over: ledger.get_ledger() goes into the final response
SessionFinalResponse(i) ==
    /\ sessions[i].pc = "processing"
    /\ SetLedgerState(get_ledger(LedgerState))
    /\ sessions' = [sessions EXCEPT ![i].pc = "answered",
                                    ![i].final = get_ledger(LedgerState).ledger.traces]
    /\ op' = "session_final"
    /\ UNCHANGED <<view, exported, session_log, runner_vars, queue_vars, harness_vars>>

Connect == \E i \in SessionIds : SessionConnect(i)
Receive == \E i \in SessionIds : SessionReceive(i)
ToolCall == \E i \in SessionIds : SessionToolCall(i)
FinalResponse == \E i \in SessionIds : SessionFinalResponse(i)

NextSessions ==
    \/ Connect
    \/ Receive
    \/ ToolCall
    \/ FinalResponse

InitAllSessions == InitServer /\ InitRunner /\ InitQueue /\ InitHarness

SpecSessions == InitAllSessions /\ [][NextSessions]_vars

Refs(refs) == {refs[k] : k \in 1..Len(refs)}

\* C9: while a session's run is in progress, every trace it recorded is
\* still in the ledger and carries the run id the session was given, and
\* the ledger a session gets for its final response holds only traces that
\* session recorded, however many other sessions connect meanwhile.
C9_RunsIsolated ==
    \A i \in SessionIds :
        sessions[i].pc # "closed" =>
            /\ \A k \in 1..Len(session_log[i]) :
                  /\ session_log[i][k] \in Refs(_traces)
                  /\ heap[session_log[i][k]].run_id = sessions[i].run_id
            /\ sessions[i].pc = "answered" =>
                  Refs(sessions[i].final) \subseteq Refs(session_log[i])

-----------------------------------------------------------------------------
(* SpecQueue: EventQueue under threads. Every action is one step a thread   *)
(* takes without another thread running in between; a thread can be         *)
(* preempted between any two of them, EventQueue takes no lock.             *)

\* one thread per session calls subscribe() with its own callback
Threads == SessionIds

InitThreads ==
    /\ _subscribers = <<>>
    /\ _running = FALSE
    /\ loops = <<>>
    /\ callers = [t \in Threads |-> "idle"]
    /\ put_count = 0
    /\ delivered = [t \in Threads |-> <<>>]
    /\ invocations = <<>>

ledger_but_queue ==
    <<controller_run_id, uuid_count, ledger, _traces, heap, view, exported,
      history, run_start, op>>

Remove(seq, x) == SelectSeq(seq, LAMBDA y : y # x)

\* EventQueue.put(event); the event is the number of its put() call
Put ==
    /\ put_count < MaxPuts
    /\ put_count' = put_count + 1
    /\ queue' = Append(queue, put_count + 1)
    /\ UNCHANGED <<_subscribers, _running, loops, callers, delivered, invocations>>
    /\ UNCHANGED <<ledger_but_queue, runner_vars, session_vars, harness_vars>>

\* subscribe(): self._subscribers.append(callback)
SubscribeAppend(t) ==
    /\ callers[t] = "idle"
    /\ _subscribers' = Append(_subscribers, t)
    /\ callers' = [callers EXCEPT ![t] = "subscribe_check"]
    /\ subscribed_at' = [subscribed_at EXCEPT ![t] = [subscribed |-> TRUE, puts |-> put_count]]
    /\ UNCHANGED <<queue, _running, loops, put_count, delivered, invocations>>
    /\ UNCHANGED <<ledger_but_queue, runner_vars, session_vars, beside_subscription>>

\* subscribe(): if not self._running: self._start_processor()
SubscribeCheck(t) ==
    /\ callers[t] = "subscribe_check"
    /\ callers' = [callers EXCEPT ![t] = IF ~_running THEN "start_check" ELSE "subscribed"]
    /\ UNCHANGED <<queue, _subscribers, _running, loops, put_count, delivered, invocations>>
    /\ UNCHANGED <<ledger_but_queue, runner_vars, session_vars, harness_vars>>

\* _start_processor(): if self._running: return
StartProcessorCheck(t) ==
    /\ callers[t] = "start_check"
    /\ callers' = [callers EXCEPT ![t] = IF _running THEN "subscribed" ELSE "start_set"]
    /\ UNCHANGED <<queue, _subscribers, _running, loops, put_count, delivered, invocations>>
    /\ UNCHANGED <<ledger_but_queue, runner_vars, session_vars, harness_vars>>

\* _start_processor(): self._running = True
StartProcessorSet(t) ==
    /\ callers[t] = "start_set"
    /\ _running' = TRUE
    /\ callers' = [callers EXCEPT ![t] = "start_thread"]
    /\ UNCHANGED <<queue, _subscribers, loops, put_count, delivered, invocations>>
    /\ UNCHANGED <<ledger_but_queue, runner_vars, session_vars, harness_vars>>

\* _start_processor(): threading.Thread(target=run_processor).start()
StartProcessorThread(t) ==
    /\ callers[t] = "start_thread"
    /\ loops' = Append(loops, [pc |-> "while", event |-> 0, targets |-> <<>>,
                               copy |-> <<>>, disconnected |-> <<>>])
    /\ callers' = [callers EXCEPT ![t] = "subscribed"]
    /\ UNCHANGED <<queue, _subscribers, _running, put_count, delivered, invocations>>
    /\ UNCHANGED <<ledger_but_queue, runner_vars, session_vars, harness_vars>>

\* unsubscribe(callback)
Unsubscribe(t) ==
    /\ callers[t] = "subscribed"
    /\ _subscribers' = IF t \in Refs(_subscribers) THEN Remove(_subscribers, t)
                       ELSE _subscribers
    /\ callers' = [callers EXCEPT ![t] = "unsubscribed"]
    /\ UNCHANGED <<queue, _running, loops, put_count, delivered, invocations>>
    /\ UNCHANGED <<ledger_but_queue, runner_vars, session_vars, harness_vars>>

\* stop()
Stop ==
    /\ _running
    /\ _running' = FALSE
    /\ UNCHANGED <<queue, _subscribers, loops, callers, put_count, delivered, invocations>>
    /\ UNCHANGED <<ledger_but_queue, runner_vars, session_vars, harness_vars>>

\* process_events(): while self._running
LoopWhile(l) ==
    /\ l \in DOMAIN loops
    /\ loops[l].pc = "while"
    /\ loops' = [loops EXCEPT ![l].pc = IF _running THEN "get" ELSE "exited"]
    /\ UNCHANGED <<queue, _subscribers, _running, callers, put_count, delivered, invocations>>
    /\ UNCHANGED <<ledger_but_queue, runner_vars, session_vars, harness_vars>>

\* process_events(): event = self._queue.get(timeout=0.1), and on Empty
\* back to the loop test; then the copy of the subscriber list is taken
LoopGet(l) ==
    /\ l \in DOMAIN loops
    /\ loops[l].pc = "get"
    /\ IF queue = <<>>
       THEN /\ loops' = [loops EXCEPT ![l].pc = "while"]
            /\ UNCHANGED queue
       ELSE /\ loops' = [loops EXCEPT ![l].pc = "send", ![l].event = Head(queue),
                                      ![l].targets = _subscribers,
                                      ![l].copy = _subscribers,
                                      ![l].disconnected = <<>>]
            /\ queue' = Tail(queue)
    /\ UNCHANGED <<_subscribers, _running, callers, put_count, delivered, invocations>>
    /\ UNCHANGED <<ledger_but_queue, runner_vars, session_vars, harness_vars>>

\* what a callback does with an event: it handles it, it raises an error of
\* the disconnected class, or it raises another exception
CallbackOutcomes == {"ok", "disconnected", "error"}

Invocation(cb, event, raised) == [cb |-> cb, event |-> event, outcome |-> raised]

\* process_events(): await callback(event) for the next subscriber of the
\* copy, inside try/except: a disconnected-class error marks the subscriber
\* for removal, any other exception is logged
LoopSend(l) ==
    /\ l \in DOMAIN loops
    /\ loops[l].pc = "send"
    /\ loops[l].targets # <<>>
    /\ \E raised \in CallbackOutcomes :
          LET t == Head(loops[l].targets)
          IN  /\ invocations' = Append(invocations, Invocation(t, loops[l].event, raised))
              /\ delivered' = IF raised = "ok"
                              THEN [delivered EXCEPT ![t] = Append(@, loops[l].event)]
                              ELSE delivered
              /\ loops' = [loops EXCEPT
                              ![l].targets = Tail(@),
                              ![l].disconnected = IF raised = "disconnected"
                                                  THEN Append(@, t) ELSE @]
    /\ UNCHANGED <<queue, _subscribers, _running, callers, put_count>>
    /\ UNCHANGED <<ledger_but_queue, runner_vars, session_vars, harness_vars>>

\* process_events(): remove the disconnected subscribers, next iteration
LoopRemove(l) ==
    /\ l \in DOMAIN loops
    /\ loops[l].pc = "send"
    /\ loops[l].targets = <<>>
    /\ _subscribers' = SelectSeq(_subscribers,
                                 LAMBDA y : y \notin Refs(loops[l].disconnected))
    /\ invocations' = invocations \o
           [k \in 1..Len(loops[l].disconnected) |->
               Invocation(loops[l].disconnected[k], loops[l].event, "removed")]
    /\ loops' = [loops EXCEPT ![l].pc = "while", ![l].event = 0,
                              ![l].disconnected = <<>>, ![l].copy = <<>>]
    /\ UNCHANGED <<queue, _running, callers, put_count, delivered>>
    /\ UNCHANGED <<ledger_but_queue, runner_vars, session_vars, harness_vars>>

SubscribeStep ==
    \E t \in Threads :
        \/ SubscribeAppend(t)
        \/ SubscribeCheck(t)
        \/ StartProcessorCheck(t)
        \/ StartProcessorSet(t)
        \/ StartProcessorThread(t)

UnsubscribeStep == \E t \in Threads : Unsubscribe(t)

\* every thread starts at most one dispatch loop
LoopIds == Threads

LoopStep ==
    \E l \in LoopIds :
        \/ LoopWhile(l)
        \/ LoopGet(l)
        \/ LoopSend(l)
        \/ LoopRemove(l)

NextQueue ==
    \/ Put
    \/ SubscribeStep
    \/ UnsubscribeStep
    \/ Stop
    \/ LoopStep

InitEventQueue == InitLedger /\ InitRunner /\ InitSessions /\ InitThreads /\ InitHarness

SpecQueue == InitEventQueue /\ [][NextQueue]_vars

\* the dispatch loops that have not ended
LiveLoops == {l \in 1..Len(loops) : loops[l].pc # "exited"}

\* C10: at any time at most one dispatch loop drains the queue, and every
\* subscriber has received its events in the order of the put() calls.
C10_SingleLoopFifo ==
    /\ Cardinality(LiveLoops) <= 1
    /\ \A t \in Threads :
          \A i, j \in 1..Len(delivered[t]) :
              i < j => delivered[t][i] < delivered[t][j]

\* the events a callback was invoked with, whatever it did with them
Invoked(cb, event) ==
    \E k \in 1..Len(invocations) :
        /\ invocations[k].cb = cb
        /\ invocations[k].event = event
        /\ invocations[k].outcome # "removed"

\* the subscriber was taken out of _subscribers for a disconnect at position k
RemovedAt(k) == invocations[k].outcome = "removed"

\* C11: a subscriber whose callback raised a disconnected-class error is
\* removed from _subscribers and is invoked with no later event; one whose
\* callback raised another exception stays subscribed; in both cases every
\* other subscriber of the copy is still offered that event
C11_FailingSubscriberHandled ==
    /\ \A k \in 1..Len(invocations) : \A j \in 1..Len(invocations) :
          (RemovedAt(k) /\ k < j /\ invocations[j].cb = invocations[k].cb)
              => (RemovedAt(j) \/ invocations[j].event <= invocations[k].event)
    /\ \A k \in 1..Len(invocations) :
          LET cb == invocations[k].cb
          IN  (/\ invocations[k].outcome = "error"
               /\ callers[cb] = "subscribed"
               /\ \A j \in 1..Len(invocations) :
                     invocations[j].cb = cb => invocations[j].outcome \in {"ok", "error"})
                  => cb \in Refs(_subscribers)
    /\ \A l \in DOMAIN loops :
          (loops[l].pc = "send" /\ loops[l].targets = <<>>)
              => \A cb \in Refs(loops[l].copy) : Invoked(cb, loops[l].event)

\* one dispatch loop only: the same statement where start-up did not race
C11_SingleLoop == Len(loops) <= 1 => C11_FailingSubscriberHandled

-----------------------------------------------------------------------------
(* SpecIsolator: threads sharing the one Isolator of get_isolator(). A dict *)
(* is a function from the keys it holds.                                    *)

IsoKeys == {"k1", "k2"}
IsoValues == {"v"}
\* a thread's view of threading.local(): whether it has the attribute `state`
NoState == [has |-> FALSE, state |-> <<>>]
State(d) == [has |-> TRUE, state |-> d]
\* the scope of a key: the global dict, or the thread-local dict of a thread
GlobalScope == <<>>
LocalScope(t) == <<t>>

EmptyDict == <<>>
DictSet(d, key, value) == [x \in DOMAIN d \cup {key} |-> IF x = key THEN value ELSE d[x]]
DictPop(d, key) == [x \in DOMAIN d \ {key} |-> d[x]]

\* dict.get(key, default)
Get(d, key, default) == IF key \in DOMAIN d THEN d[key] ELSE default

InitIsolatorThreads ==
    /\ _global_state = EmptyDict
    /\ _local_state = [t \in Threads |-> NoState]
    /\ iso_pc = [t \in Threads |-> "idle"]
    /\ set_since = [t \in Threads |-> {}]

\* a thread is between two statements of reset()
InReset(t) == iso_pc[t] = "cleared_global"

\* the ghost record of a key being set in a scope
Note(entry) == set_since' = [x \in Threads |-> set_since[x] \cup {entry}]

\* Isolator.set_global
SetGlobal(t, key, value) ==
    /\ ~InReset(t)
    /\ _global_state' = DictSet(_global_state, key, value)
    /\ Note(<<GlobalScope, key>>)
    /\ UNCHANGED <<_local_state, iso_pc>>
    /\ UNCHANGED beside_isolator

\* Isolator.clear_global
ClearGlobal(t, key) ==
    /\ ~InReset(t)
    /\ _global_state' = DictPop(_global_state, key)
    /\ UNCHANGED <<_local_state, iso_pc, set_since>>
    /\ UNCHANGED beside_isolator

\* Isolator.set_local
SetLocal(t, key, value) ==
    /\ ~InReset(t)
    /\ _local_state' = [_local_state EXCEPT ![t] =
          State(DictSet(IF @.has THEN @.state ELSE EmptyDict, key, value))]
    /\ Note(<<LocalScope(t), key>>)
    /\ UNCHANGED <<_global_state, iso_pc>>
    /\ UNCHANGED beside_isolator

\* Isolator.clear_local
ClearLocal(t, key) ==
    /\ ~InReset(t)
    /\ _local_state[t].has
    /\ _local_state' = [_local_state EXCEPT ![t] = State(DictPop(@.state, key))]
    /\ UNCHANGED <<_global_state, iso_pc, set_since>>
    /\ UNCHANGED beside_isolator

\* Isolator.get_global
get_global(key, default) == Get(_global_state, key, default)

\* Isolator.get_local, called on thread t
get_local(t, key, default) ==
    IF ~_local_state[t].has THEN default ELSE Get(_local_state[t].state, key, default)

\* reset(): with self._lock: self._global_state.clear()
ResetGlobal(t) ==
    /\ ~InReset(t)
    /\ _global_state' = EmptyDict
    /\ iso_pc' = [iso_pc EXCEPT ![t] = "cleared_global"]
    /\ set_since' = [set_since EXCEPT ![t] = {}]
    /\ UNCHANGED _local_state
    /\ UNCHANGED beside_isolator

\* reset(): if hasattr(self._local_state, 'state'): self._local_state.state = {}
\* (threading.local: the attribute of the calling thread), and return
ResetLocal(t) ==
    /\ InReset(t)
    /\ _local_state' = [_local_state EXCEPT ![t] = IF @.has THEN State(EmptyDict) ELSE @]
    /\ iso_pc' = [iso_pc EXCEPT ![t] = "returned"]
    /\ UNCHANGED <<_global_state, set_since>>
    /\ UNCHANGED beside_isolator

SetGlobalStep == \E t \in Threads, key \in IsoKeys, value \in IsoValues : SetGlobal(t, key, value)
ClearGlobalStep == \E t \in Threads, key \in IsoKeys : ClearGlobal(t, key)
SetLocalStep == \E t \in Threads, key \in IsoKeys, value \in IsoValues : SetLocal(t, key, value)
ClearLocalStep == \E t \in Threads, key \in IsoKeys : ClearLocal(t, key)
ResetGlobalStep == \E t \in Threads : ResetGlobal(t)
ResetLocalStep == \E t \in Threads : ResetLocal(t)

NextIsolator ==
    \/ SetGlobalStep
    \/ ClearGlobalStep
    \/ SetLocalStep
    \/ ClearLocalStep
    \/ ResetGlobalStep
    \/ ResetLocalStep

InitSharedIsolator ==
    InitLedger /\ InitRunner /\ InitSessions /\ InitQueue /\ InitIsolatorThreads /\ InitRegistry
        /\ InitWrapper /\ InitAdded /\ InitFunctions

SpecIsolator == InitSharedIsolator /\ [][NextIsolator]_vars

\* C12: when a thread's reset() has returned, a key that was set before that
\* reset() began and not set again since is not observable: get_global
\* gives the default, and get_local gives the default on every thread
C12_ResetClearsEveryKey ==
    \A t \in Threads :
        iso_pc[t] = "returned" =>
            \A key \in IsoKeys :
                /\ <<GlobalScope, key>> \notin set_since[t] => get_global(key, None) = None
                /\ \A other \in Threads :
                      <<LocalScope(other), key>> \notin set_since[t] => get_local(other, key, None) = None

\* the same statement for the global dict and the calling thread alone
C12_OwnThread ==
    \A t \in Threads :
        iso_pc[t] = "returned" =>
            \A key \in IsoKeys :
                /\ <<GlobalScope, key>> \notin set_since[t] => get_global(key, None) = None
                /\ <<LocalScope(t), key>> \notin set_since[t] => get_local(t, key, None) = None

-----------------------------------------------------------------------------
(* SpecFixtures: one FixtureRegistry on a fixture directory, load_fixture   *)
(* and save_fixture calls in any order. The directory is a function from    *)
(* the paths of the files it holds to the `data` and `format` of each file; *)
(* a path is <<tool_name, seed, param_hash>>, param_hash being <<>> in the  *)
(* name of a seed-only file.                                                *)

LowerPiece(c) ==
    CASE c = "NYC" -> "nyc"
      [] c = "SFO" -> "sfo"
      [] OTHER -> c

\* str.lower()
Lower(s) == [i \in 1..Len(s) |-> LowerPiece(s[i])]

\* str(v) of a str or an int
ToStr(v) == IF v.kind = "int" THEN IntStr(v.val[1]) ELSE v.val

\* an injective stand-in for hashlib.md5(...).hexdigest()
Md5Hex(text) == <<"md5:">> \o text

\* {"tool": tool_name, **{k: ... for k, v in sorted(params.items())}}: a key
\* "tool" of params replaces the tool name
Normalized(tool_name, params) ==
    LET items == SortedItems(params.val)
        norm == [i \in 1..Len(items) |->
                    <<items[i][1], PyStr(Strip(Lower(ToStr(items[i][2]))))>>]
    IN  PyDict(IF DictHas(params, K("tool"))
               THEN norm
               ELSE << <<K("tool"), Str1(tool_name)>> >> \o norm)

\* FixtureRegistry._hash_params
_hash_params(tool_name, params) == Md5Hex(JsonDumps(Normalized(tool_name, params)))

NoParamHash == <<>>

\* FixtureRegistry._get_fixture_path
_get_fixture_path(tool_name, seed, param_hash) == <<tool_name, seed, param_hash>>

Exists(dir, path) == path \in DOMAIN dir

\* f"{tool_name}:{seed}:{param_hash}"
CacheKey(tool_name, seed, param_hash) ==
    <<tool_name, ":">> \o IntStr(seed) \o <<":">> \o param_hash

\* cache_key in self._cache, self._cache[cache_key]
CacheHas(cache, key) == \E i \in 1..Len(cache) : cache[i][1] = key
CacheGet_latest(cache, key) == cache[Len(cache)][2]
CacheGet(cache, key) == cache[CHOOSE i \in 1..Len(cache) : cache[i][1] = key][2]

NoFixture == [found |-> FALSE, data |-> PyNone, source_file |-> <<>>]

\* a pandas DataFrame of the given records
PyDataFrame(records) == [kind |-> "dataframe", val |-> records]

\* the fixture_dict a file holds
FixtureFile(data, format_type) == [data |-> data, format |-> format_type]

\* load_fixture: the data of the response, a DataFrame when the format says so
LoadedData(fixture_dict) ==
    IF fixture_dict.format = "dataframe" /\ fixture_dict.data.kind = "dict"
    THEN PyDataFrame(IF DictHas(fixture_dict.data, K("records"))
                     THEN DictItem(fixture_dict.data, K("records")).val
                     ELSE <<>>)
    ELSE IF fixture_dict.format = "dataframe" /\ fixture_dict.data.kind = "list"
    THEN PyDataFrame(fixture_dict.data.val)
    ELSE fixture_dict.data
FixtureResponse(data, path) == [found |-> TRUE, data |-> data, source_file |-> path]

\* FixtureRegistry.load_fixture: what it returns and the cache it leaves
load_fixture(dir, cache, tool_name, params, seed) ==
    LET param_hash == _hash_params(tool_name, params)
        exact == _get_fixture_path(tool_name, seed, param_hash)
        fixture_path == IF Exists(dir, exact) THEN exact
                        ELSE _get_fixture_path(tool_name, seed, NoParamHash)
        cache_key == CacheKey(tool_name, seed, param_hash)
        response == FixtureResponse(LoadedData(dir[fixture_path]), fixture_path)
    IN  IF ~Exists(dir, fixture_path)
        THEN [response |-> NoFixture, cache |-> cache]
        ELSE IF CacheHas(cache, cache_key)
        THEN [response |-> CacheGet(cache, cache_key), cache |-> cache]
        ELSE [response |-> response, cache |-> Append(cache, <<cache_key, response>>)]

\* save_fixture: the `data` written to the file
SerializedData(data) ==
    IF data.kind = "dataframe" THEN PyDict(<< <<K("records"), PyList(data.val)>> >>)
    ELSE IF data.kind = "dict" THEN data
    ELSE PyDict(<< <<K("text"), PyStr(ToStr(data))>> >>)

\* FixtureRegistry.save_fixture: the directory it leaves
save_fixture(dir, tool_name, params, seed, data, format_type) ==
    DictSet(dir, _get_fixture_path(tool_name, seed, _hash_params(tool_name, params)),
            FixtureFile(SerializedData(data), format_type))

RegistryTools == {"restaurant_search"}
Seeds == {1}
\* the second has the hash of the first, the third another one
FixtureParams == {Query(Str1("NYC")), Query(PyStr(<<"nyc", " ">>)), Query(Str1("SFO"))}
\* a json, a text and a dataframe payload, each with its format
SavedData ==
    { <<PyDict(<< <<K("price"), PyInt(1)>> >>), "json">>,
      <<Str1("t"), "text">>,
      <<PyDataFrame(<< PyDict(<< <<K("price"), PyInt(1)>> >>) >>), "dataframe">> }
\* the data of a seed-only file
SeedData(seed) == PyDict(<< <<K("seed"), PyInt(seed)>> >>)

\* a fixture directory holding the seed-only file of each given seed
SeedOnlyDir(tools, seeds) ==
    [p \in {_get_fixture_path(t, sd, NoParamHash) : t \in tools, sd \in seeds}
        |-> FixtureFile(SeedData(p[2]), "json")]

InitFixtureDir ==
    /\ files \in {SeedOnlyDir(RegistryTools, S) : S \in SUBSET Seeds}
    /\ _cache = <<>>
    /\ loads = <<>>
    /\ save_count = 0
    /\ saved = <<>>
    /\ fx_op = "none"

LoadFixture ==
    /\ Len(loads) < MaxLoads
    /\ \E tool_name \in RegistryTools, params \in FixtureParams, seed \in Seeds :
          \E r \in {load_fixture(files, _cache, tool_name, params, seed)} :
              /\ _cache' = r.cache
              /\ loads' = Append(loads, [key |-> <<tool_name, params, seed>>,
                                         version |-> save_count,
                                         response |-> r.response])
    /\ fx_op' = "load"
    /\ UNCHANGED <<files, save_count, saved>>
    /\ UNCHANGED beside_fixtures

SaveFixture ==
    /\ save_count < MaxSaves
    /\ \E tool_name \in RegistryTools, params \in FixtureParams, seed \in Seeds,
          payload \in SavedData :
          /\ files' = save_fixture(files, tool_name, params, seed, payload[1], payload[2])
          /\ saved' = Append(saved, [key |-> <<tool_name, params, seed>>,
                                     data |-> payload[1], format |-> payload[2],
                                     loads |-> Len(loads)])
    /\ save_count' = save_count + 1
    /\ fx_op' = "save"
    /\ UNCHANGED <<_cache, loads>>
    /\ UNCHANGED beside_fixtures

NextFixtures ==
    \/ LoadFixture
    \/ SaveFixture

InitOneRegistry ==
    InitLedger /\ InitRunner /\ InitSessions /\ InitQueue /\ InitIsolator /\ InitFixtureDir
        /\ InitWrapper /\ InitAdded /\ InitFunctions

SpecFixtures == InitOneRegistry /\ [][NextFixtures]_vars

\* C13: two load_fixture calls with the same (tool_name, params, seed) and
\* no save_fixture between them return identical data, whatever was looked
\* up between them
C13_LoadsAgree ==
    \A i \in 1..Len(loads) : \A j \in 1..Len(loads) :
        (i < j /\ loads[i].key = loads[j].key /\ loads[i].version = loads[j].version)
            => loads[i].response = loads[j].response

\* a fixture was loaded from its file, another key was looked up, and the
\* first key was loaded again
C13_Witness ==
    \E i \in 1..Len(loads) : \E k \in 1..Len(loads) : \E j \in 1..Len(loads) :
        /\ i < k /\ k < j
        /\ loads[i].key = loads[j].key /\ loads[i].key # loads[k].key
        /\ loads[i].version = loads[j].version /\ loads[k].version = loads[i].version
        /\ loads[i].response.found /\ loads[k].response.found
        /\ loads[i].response # loads[k].response
        /\ loads[j].response = loads[i].response

\* what the lookup order selects in a directory
Selected(dir, tool_name, params, seed) ==
    LET exact == _get_fixture_path(tool_name, seed, _hash_params(tool_name, params))
        seed_only == _get_fixture_path(tool_name, seed, NoParamHash)
    IN  IF Exists(dir, exact) THEN FixtureResponse(LoadedData(dir[exact]), exact)
        ELSE IF Exists(dir, seed_only)
        THEN FixtureResponse(LoadedData(dir[seed_only]), seed_only)
        ELSE NoFixture

\* C14: load_fixture returns the exact-parameter fixture when its file
\* exists at call time, the seed-only fixture when only that one exists, and
\* None when neither exists, whatever was loaded and saved before
C14_LookupOrder ==
    (fx_op = "load") =>
        LET last == loads[Len(loads)]
        IN  last.response = Selected(files, last.key[1], last.key[2], last.key[3])

\* the cache key of a recorded load
LoadCacheKey(l) == CacheKey(l.key[1], l.key[3], _hash_params(l.key[1], l.key[2]))

\* the same statement for the calls whose cache key was never loaded before
C14_FirstLoads ==
    (fx_op = "load" /\ \A i \in 1..(Len(loads) - 1) :
                          LoadCacheKey(loads[i]) # LoadCacheKey(loads[Len(loads)])) =>
        LET last == loads[Len(loads)]
        IN  last.response = Selected(files, last.key[1], last.key[2], last.key[3])

-----------------------------------------------------------------------------
(* SpecWrapper: calls of the functions FixtureWrapper.wrap_tool returns,    *)
(* made as InterceptedTool._run makes them (the query as the one positional *)
(* argument), on a FixtureWrapper whose loaders share its registry. The     *)
(* loaders of flight_search and hotel_search are not part of the sources;   *)
(* the wrapped tools here are restaurant_search and weather.                *)

WrappedTools == {"restaurant_search", "weather"}
Queries == {Str1("NYC"), Str1("SFO")}

\* GreenAgentController.get_seed()
ControllerSeed == CHOOSE seed \in Seeds : TRUE

\* what the real tool returns
LiveResult == Str1("live")

\* the payload of the fixture recorded for a tool
Payload(tool_name) == PyDict(<< <<K("name"), Str1(tool_name)>> >>)

\* fixture directories holding an exact-parameter fixture for the query NYC
\* of each given tool
ExactDir(tools) ==
    [p \in {_get_fixture_path(t, ControllerSeed, _hash_params(t, Query(Str1("NYC")))) :
                t \in tools}
        |-> FixtureFile(Payload(p[1]), "json")]

InitWrapperDir ==
    /\ files \in {ExactDir(T) : T \in SUBSET WrappedTools}
    /\ _cache = <<>>
    /\ loads = <<>>
    /\ save_count = 0
    /\ saved = <<>>
    /\ fx_op = "none"

beside_wrapper ==
    <<ledger_but_queue, runner_vars, session_vars, queue_vars, isolator_vars, function_vars,
      added_vars>>

\* params = {'query': str(query)}; params.update(kwargs)
WrapperParams(query) == Query(PyStr(ToStr(query)))

\* wrapped_tool(query): params, seed and scenario are computed
WrappedCall ==
    /\ w_pc \in {"idle", "returned"}
    /\ w_calls < MaxCalls
    /\ \E tool_name \in WrappedTools, query \in Queries :
          w_call' = <<tool_name, query>>
    /\ w_calls' = w_calls + 1
    /\ w_pc' = "lookup"
    /\ fixture_data' = PyNone
    /\ w_log' = <<>>
    /\ w_return' = PyNone
    /\ UNCHANGED <<queue, fixture_vars>>
    /\ UNCHANGED beside_wrapper

\* RestaurantFixtures.get_fixture: the registry's response data, or None
get_fixture(dir, cache, tool_name, params, seed) ==
    LET r == load_fixture(dir, cache, tool_name, params, seed)
    IN  [data |-> IF r.response.found THEN r.response.data ELSE PyNone, cache |-> r.cache]

\* wrapped_tool: the if/elif chain over tool_name that asks a loader for the
\* fixture; a tool name outside the chain leaves fixture_data None
ChainLookup(dir, cache, tool_name, params, seed) ==
    IF tool_name = "restaurant_search"
    THEN get_fixture(dir, cache, tool_name, params, seed)
    ELSE [data |-> PyNone, cache |-> cache]

LookupFixture ==
    /\ w_pc = "lookup"
    /\ \E g \in {ChainLookup(files, _cache, w_call[1], WrapperParams(w_call[2]),
                              ControllerSeed)} :
          /\ fixture_data' = g.data
          /\ _cache' = g.cache
    /\ w_log' = IF w_call[1] = "restaurant_search" THEN Append(w_log, "lookup") ELSE w_log
    /\ w_pc' = "emit"
    /\ UNCHANGED <<queue, files, loads, save_count, saved, fx_op, w_call, w_return, w_calls>>
    /\ UNCHANGED beside_wrapper

WrapperEvent(type, tool_name, data) == [type |-> type, tool_name |-> tool_name, data |-> data]

\* wrapped_tool: self.event_queue.put({'type': 'tool_call', ...})
EmitToolCall ==
    /\ w_pc = "emit"
    /\ queue' = Append(queue, WrapperEvent("tool_call", w_call[1], WrapperParams(w_call[2])))
    /\ w_log' = Append(w_log, "tool_call")
    /\ w_pc' = "resolve"
    /\ UNCHANGED <<fixture_vars, w_call, fixture_data, w_return, w_calls>>
    /\ UNCHANGED beside_wrapper

\* what the wrapper returns for fixture data of format 'json'
ReturnShape(data) == IF data.kind = "dict" THEN PyStr(JsonDumps(data)) ELSE data

\* wrapped_tool, fixture_data is not None: the full response of the registry
FullResponse == load_fixture(files, _cache, w_call[1], WrapperParams(w_call[2]), ControllerSeed)

\* wrapped_tool, fixture_data is not None: load the full response, put the
\* fixture_response event if there is one, return the fixture
ReturnFixture ==
    /\ w_pc = "resolve"
    /\ fixture_data # PyNone
    /\ \E r \in {FullResponse} :
          /\ _cache' = r.cache
          /\ queue' = IF r.response.found
                      THEN Append(queue, WrapperEvent("fixture_response", w_call[1],
                                                      fixture_data))
                      ELSE queue
          /\ w_log' = IF r.response.found
                      THEN w_log \o <<"load", "fixture_response">>
                      ELSE Append(w_log, "load")
    /\ w_return' = ReturnShape(fixture_data)
    /\ w_pc' = "returned"
    /\ UNCHANGED <<files, loads, save_count, saved, fx_op, w_call, fixture_data, w_calls>>
    /\ UNCHANGED beside_wrapper

\* wrapped_tool, fixture_data is None: result = original_tool(*args, **kwargs)
CallOriginalTool ==
    /\ w_pc = "resolve"
    /\ fixture_data = PyNone
    /\ w_log' = Append(w_log, "original_tool")
    /\ w_return' = LiveResult
    /\ w_pc' = "returned"
    /\ UNCHANGED <<queue, fixture_vars, w_call, fixture_data, w_calls>>
    /\ UNCHANGED beside_wrapper

NextWrapper ==
    \/ WrappedCall
    \/ LookupFixture
    \/ EmitToolCall
    \/ ReturnFixture
    \/ CallOriginalTool

InitWrappedTools ==
    InitLedger /\ InitRunner /\ InitSessions /\ InitQueue /\ InitIsolator /\ InitWrapperDir
        /\ InitWrapper /\ InitAdded /\ InitFunctions

SpecWrapper == InitWrappedTools /\ [][NextWrapper]_vars

\* how often, and where first, a step occurs in the log of the current call
Count(step) == Cardinality({k \in 1..Len(w_log) : w_log[k] = step})
First(step) == CHOOSE k \in 1..Len(w_log) : w_log[k] = step /\ \A j \in 1..(k - 1) : w_log[j] # step

\* the fixture the registry holds for the current call
CallFixture == Selected(files, w_call[1], WrapperParams(w_call[2]), ControllerSeed)

\* C15: a wrapped call that has returned called the real tool exactly when
\* no fixture exists for (tool, params, seed): with a fixture, never, and the
\* fixture payload was returned; without one, exactly once, and the real
\* tool's result was returned
C15_RealToolIffNoFixture ==
    w_pc = "returned" =>
        IF CallFixture.found
        THEN Count("original_tool") = 0 /\ w_return = ReturnShape(CallFixture.data)
        ELSE Count("original_tool") = 1 /\ w_return = LiveResult

\* the same statement for the tool whose name the wrapper's chain knows
C15_KnownTool == w_call # <<>> /\ w_call[1] = "restaurant_search" => C15_RealToolIffNoFixture

\* C16: a wrapped call that has returned put exactly one tool_call event, and
\* put it before its fixture lookup; it put a fixture_response event exactly
\* when a fixture exists for it, and after the tool_call event
C16_EventsInOrder ==
    w_pc = "returned" =>
        /\ Count("tool_call") = 1
        /\ Count("lookup") > 0 => First("tool_call") < First("lookup")
        /\ Count("fixture_response") = (IF fixture_data # PyNone THEN 1 ELSE 0)
        /\ Count("fixture_response") > 0 => First("tool_call") < First("fixture_response")

\* the same statement without the order of the event and the lookup
C16_Events ==
    w_pc = "returned" =>
        /\ Count("tool_call") = 1
        /\ Count("fixture_response") = (IF fixture_data # PyNone THEN 1 ELSE 0)
        /\ Count("fixture_response") > 0 => First("tool_call") < First("fixture_response")

-----------------------------------------------------------------------------
(* SpecNormalizer: PlanNormalizer.normalize_value applied to a value, and   *)
(* applied again to what it returned.                                       *)

NormalizerAlphabet == {"*", "a", " ", "/", "2", "Dec"}

\* every text of at most n pieces of the alphabet
TextsUpTo(n) == UNION {[1..k -> NormalizerAlphabet] : k \in 0..n}

ExampleTexts ==
    { <<"*", "*", "*", "a", "*", "*", "*">>,
      <<"a", "/", "b", "/", " ", "q">>,
      <<"Dec", " ", "2", " ", "flights", " ", "SFO", " ", "to", " ", "NYC">>,
      <<"December", " ", "2">>,
      <<"1", "2", "/", "0", "2", "/", "2", "0", "2", "4">>,
      <<"2", "0", "2", "4", "-", "1", "2", "-", "0", "2">>,
      <<"[", "a", "]", "(", "b", ")">>,
      <<"a", "U+2192", "b">> }

NormalizerInputs ==
    {PyStr(t) : t \in TextsUpTo(MaxLen) \cup ExampleTexts}
        \cup {PyList(<<PyStr(t), PyInt(2)>>) : t \in ExampleTexts}
        \cup {Query(PyStr(t)) : t \in ExampleTexts}

InitNormalizerInput ==
    /\ fn_args \in NormalizerInputs
    /\ fn_returns = <<>>
    /\ fn_pc = "start"

\* normalize_value(value), then normalize_value of the result
NormalizeValue ==
    /\ fn_pc \in {"start", "once"}
    /\ fn_returns' = Append(fn_returns,
                            normalize_value(IF fn_pc = "start" THEN fn_args
                                            ELSE fn_returns[Len(fn_returns)]))
    /\ fn_pc' = IF fn_pc = "start" THEN "once" ELSE "twice"
    /\ UNCHANGED fn_args
    /\ UNCHANGED beside_functions

NextNormalizer == NormalizeValue

InitNormalizer ==
    InitLedger /\ InitRunner /\ InitSessions /\ InitQueue /\ InitIsolator /\ InitRegistry
        /\ InitWrapper /\ InitAdded /\ InitNormalizerInput

SpecNormalizer == InitNormalizer /\ [][NextNormalizer]_vars

\* C17: normalize_value is idempotent: normalizing its result again returns
\* the result unchanged
C17_NormalizeIdempotent == fn_pc = "twice" => fn_returns[2] = fn_returns[1]

\* the same statement for the texts without markdown markers and links that
\* normalize_date leaves alone or that need no trimming
C17_PlainTexts ==
    (/\ fn_pc = "twice"
     /\ fn_args.kind = "str"
     /\ \A i \in 1..Len(fn_args.val) : fn_args.val[i] \notin Markers \cup {"[", "/"}
     /\ fn_args.val = Strip(fn_args.val))
        => fn_returns[2] = fn_returns[1]

MonthWords ==
    {"Jan", "January", "Feb", "Mar", "March", "Apr", "May", "Jun", "June", "Jul", "Aug",
     "Sep", "Oct", "Nov", "Dec", "December"}

AllDigits(s) == s # <<>> /\ \A i \in 1..Len(s) : s[i] \in Digits

\* the whole text is a date in one of the three formats of normalize_date
IsWholeDate(d) ==
    \/ IsIsoDate(d)
    \/ LET parts == SplitSlash(d)
       IN  /\ Len(parts) = 3
           /\ \A k \in 1..3 : AllDigits(parts[k])
    \/ LET m == MonthDayMatch(d)
       IN  /\ m.ok
           /\ m.name_end = 1 /\ d[1] \in MonthWords
           /\ m.day_end = Len(d)

\* C18: normalize_value rewrites a string to a date only when the whole
\* trimmed string is a date; any other string keeps its text
C18_DateOnlyWhenWholeDate ==
    (/\ fn_pc \in {"once", "twice"}
     /\ fn_args.kind = "str"
     /\ fn_returns[1].val = normalize_date(fn_args.val)
     /\ fn_returns[1].val # Strip(fn_args.val))
        => IsWholeDate(Strip(fn_args.val))

\* a whole date is rewritten to YYYY-MM-DD
C18_WholeDates ==
    (/\ fn_pc \in {"once", "twice"}
     /\ fn_args.kind = "str"
     /\ IsWholeDate(Strip(fn_args.val)))
        => IsIsoDate(fn_returns[1].val)

-----------------------------------------------------------------------------
(* SpecGrounding: GroundingValidator.validate_grounding applied to a list   *)
(* of claims of type 'number' (whose context names no tool reference) on a  *)
(* ledger, and applied again to the same claims on another ledger. A float  *)
(* is modelled by its number of thousandths: kind "float", val <<m>>.       *)

PyFloat(m) == [kind |-> "float", val |-> <<m>>]

\* isinstance(value, (int, float))
IsNumber(v) == v.kind \in {"int", "float"}
\* the thousandths of a number
Milli(v) == IF v.kind = "int" THEN v.val[1] * 1000 ELSE v.val[1]

Abs(n) == IF n < 0 THEN -n ELSE n
Max2(a, b) == IF a >= b THEN a ELSE b

NoType == "None"
Found(is_match, match_type, contradiction) ==
    [is_match |-> is_match, match_type |-> match_type, contradiction |-> contradiction]
NotFound == Found(FALSE, NoType, PyNone)

\* the truth value of a contradiction: None and a zero are false
IsContradiction(c) == c.kind # "none" /\ Milli(c) # 0

\* GroundingValidator._compare_numbers with tolerance 0.01: [is_match, match_type]
_compare_numbers(claim, tool) ==
    LET d == Abs(Milli(claim) - Milli(tool))
    IN  IF d < 10 THEN <<TRUE, "exact">>
        ELSE IF d * 100 < 5 * Max2(Max2(Abs(Milli(claim)), Abs(Milli(tool))), 1000)
        THEN <<TRUE, "close">>
        ELSE <<FALSE, NoType>>

\* abs(claim_value - value) > max(abs(claim_value), abs(value)) * 0.1
VeryDifferent(claim, tool) ==
    Abs(Milli(claim) - Milli(tool)) * 10 > Max2(Abs(Milli(claim)), Abs(Milli(tool)))

RECURSIVE _search_in_result(_, _)
RECURSIVE SearchItems(_, _, _)
RECURSIVE SearchList(_, _, _)

\* GroundingValidator._search_in_dict: the loop over data.items() from item i
SearchItems(claim_value, items, i) ==
    IF i > Len(items) THEN NotFound
    ELSE LET value == items[i][2]
         IN  IF IsNumber(value)
             THEN IF _compare_numbers(claim_value, value)[1]
                  THEN Found(TRUE, _compare_numbers(claim_value, value)[2], PyNone)
                  ELSE IF VeryDifferent(claim_value, value)
                  THEN Found(FALSE, NoType, value)
                  ELSE SearchItems(claim_value, items, i + 1)
             ELSE IF value.kind \in {"dict", "list"}
             THEN LET r == _search_in_result(claim_value, value)
                  IN  IF r.is_match THEN Found(TRUE, r.match_type, PyNone)
                      ELSE IF IsContradiction(r.contradiction)
                      THEN Found(FALSE, NoType, r.contradiction)
                      ELSE SearchItems(claim_value, items, i + 1)
             ELSE SearchItems(claim_value, items, i + 1)

\* GroundingValidator._search_in_dict for a claim of type 'number'
_search_in_dict(claim_value, data) == SearchItems(claim_value, data.val, 1)

\* GroundingValidator._search_in_result: the loop over a list from item i
SearchList(claim_value, items, i) ==
    IF i > Len(items) THEN NotFound
    ELSE LET r == _search_in_result(claim_value, items[i])
         IN  IF r.is_match THEN Found(TRUE, r.match_type, PyNone)
             ELSE IF IsContradiction(r.contradiction)
             THEN Found(TRUE, NoType, r.contradiction)
             ELSE SearchList(claim_value, items, i + 1)

\* GroundingValidator._search_in_result for a claim of type 'number'
_search_in_result(claim_value, result) ==
    IF result.kind = "dict" THEN _search_in_dict(claim_value, result)
    ELSE IF result.kind = "list" THEN SearchList(claim_value, result.val, 1)
    ELSE NotFound

\* GroundingValidator._check_claim_grounding: the loop over the traces
RECURSIVE SearchTraces(_, _, _)
SearchTraces(claim_value, traces, i) ==
    IF i > Len(traces) THEN NotFound
    ELSE IF traces[i].return_value = PyNone THEN SearchTraces(claim_value, traces, i + 1)
    ELSE LET r == _search_in_result(claim_value, traces[i].return_value)
         IN  IF r.is_match THEN Found(TRUE, r.match_type, PyNone)
             ELSE IF IsContradiction(r.contradiction)
             THEN Found(FALSE, NoType, r.contradiction)
             ELSE SearchTraces(claim_value, traces, i + 1)

_check_claim_grounding(claim, traces) == SearchTraces(claim.value, traces, 1)

\* the number of indices of a sequence that satisfy a test
CountOf(seq, Test(_)) == Cardinality({k \in 1..Len(seq) : Test(seq[k])})

\* a score as a fraction num / den
Clamp(num, den) == IF num < 0 THEN 0 ELSE IF num > den THEN den ELSE num

\* GroundingValidator.validate_grounding: the counts, the score, and per
\* claim what _check_claim_grounding returned
validate_grounding(claims, traces) ==
    LET checks == [k \in 1..Len(claims) |-> _check_claim_grounding(claims[k], traces)]
        total == Len(claims)
        grounded == CountOf(checks, LAMBDA c : c.is_match)
        exact == CountOf(checks, LAMBDA c : c.is_match /\ c.match_type = "exact")
        contradicted == CountOf(checks, LAMBDA c : IsContradiction(c.contradiction))
    IN  [total_claims |-> total,
         grounded_claims |-> grounded,
         exact_matches |-> exact,
         contradicted_claims |-> contradicted,
         score |-> IF total > 0
                   THEN [num |-> Clamp(10 * grounded + 2 * exact - 5 * contradicted,
                                       10 * total),
                         den |-> 10 * total]
                   ELSE [num |-> 0, den |-> 1],
         checks |-> checks]

NumberClaim(field, value) == [field |-> field, value |-> value, type |-> "number"]
Trace(return_value) == [return_value |-> return_value]

\* the claim lists: one claim of 100.0, alone or next to a claim of 108
ClaimLists ==
    { << NumberClaim("cost", PyFloat(100000)) >>,
      << NumberClaim("cost", PyFloat(100000)), NumberClaim("flights[0].price", PyInt(108)) >> }

\* what the tools returned
GroundingReturns ==
    { \* within 0.01 of the claim of 100.0
      PyDict(<< <<K("price"), PyFloat(100005)>> >>),
      \* the claimed value after a very different number
      PyDict(<< <<K("duration"), PyInt(300)>>, <<K("price"), PyFloat(100000)>> >>),
      \* the claimed value after a zero
      PyDict(<< <<K("stops"), PyInt(0)>>, <<K("price"), PyInt(100)>> >>),
      \* 8 percent off: neither a match nor a contradiction
      PyDict(<< <<K("price"), PyInt(108)>> >>),
      \* a very different number inside a list
      PyList(<< PyDict(<< <<K("price"), PyInt(300)>> >>) >>),
      \* 8 percent off, then a very different number
      PyDict(<< <<K("price"), PyInt(108)>>, <<K("fee"), PyInt(300)>> >>),
      \* no number
      PyDict(<< <<K("note"), Str1("t")>> >>) }

TraceLists(n) == UNION {[1..k -> {Trace(r) : r \in GroundingReturns}] : k \in 1..n}

InitGroundingInput ==
    /\ fn_args \in [claims : ClaimLists, traces : TraceLists(MaxTraces), other : TraceLists(1)]
    /\ fn_returns = <<>>
    /\ fn_pc = "start"

\* validate_grounding(claims) on the ledger, then on the other ledger
ValidateGrounding ==
    /\ fn_pc \in {"start", "validated"}
    /\ fn_returns' = Append(fn_returns,
                            validate_grounding(fn_args.claims,
                                               IF fn_pc = "start" THEN fn_args.traces
                                               ELSE fn_args.other))
    /\ fn_pc' = IF fn_pc = "start" THEN "validated" ELSE "compared"
    /\ UNCHANGED fn_args
    /\ UNCHANGED beside_functions

NextGrounding == ValidateGrounding

InitGrounding ==
    InitLedger /\ InitRunner /\ InitSessions /\ InitQueue /\ InitIsolator /\ InitRegistry
        /\ InitWrapper /\ InitAdded /\ InitGroundingInput

SpecGrounding == InitGrounding /\ [][NextGrounding]_vars

\* every number anywhere in a value
RECURSIVE NumbersIn(_)
NumbersIn(v) ==
    IF IsNumber(v) THEN {v}
    ELSE IF v.kind = "dict" THEN UNION {NumbersIn(v.val[i][2]) : i \in 1..Len(v.val)}
    ELSE IF v.kind = "list" THEN UNION {NumbersIn(v.val[i]) : i \in 1..Len(v.val)}
    ELSE {}

\* some trace's return value holds a number within 0.01 of the claim
HasEqualNumber(claim, traces) ==
    \E i \in 1..Len(traces) : \E n \in NumbersIn(traces[i].return_value) :
        Abs(Milli(claim.value) - Milli(n)) < 10

\* C19: a numeric claim that equals, within 0.01, a number anywhere in some
\* trace's return value is grounded with an exact match and not reported as
\* contradicted, whatever other numbers the return values hold and in
\* whatever order
C19_EqualNumberIsGrounded ==
    fn_pc \in {"validated", "compared"} =>
        \A k \in 1..Len(fn_args.claims) :
            HasEqualNumber(fn_args.claims[k], fn_args.traces) =>
                LET check == fn_returns[1].checks[k]
                IN  /\ check.is_match
                    /\ check.match_type = "exact"
                    /\ ~IsContradiction(check.contradiction)

\* the same statement where the equal number is the first number of the
\* first trace
C19_FirstNumber ==
    fn_pc \in {"validated", "compared"} =>
        \A k \in 1..Len(fn_args.claims) :
            LET first == fn_args.traces[1].return_value
            IN  (/\ first.kind = "dict"
                 /\ IsNumber(first.val[1][2])
                 /\ Abs(Milli(fn_args.claims[k].value) - Milli(first.val[1][2])) < 10)
                    => /\ fn_returns[1].checks[k].is_match
                       /\ fn_returns[1].checks[k].match_type = "exact"

Contradicted(check) == ~check.is_match /\ IsContradiction(check.contradiction)
Unmatched(check) == ~check.is_match /\ ~IsContradiction(check.contradiction)
ScoreLess(a, b) == a.num * b.den < b.num * a.den

\* C20: a claim that is contradicted on one ledger and merely unmatched on
\* another, every other claim being judged the same on both, gets a strictly
\* lower grounding score on the first
C20_ContradictionScoresLower ==
    fn_pc = "compared" =>
        \A k \in 1..Len(fn_args.claims) :
            (/\ Contradicted(fn_returns[1].checks[k])
             /\ Unmatched(fn_returns[2].checks[k])
             /\ \A j \in 1..Len(fn_args.claims) :
                   j # k => fn_returns[1].checks[j] = fn_returns[2].checks[j])
                => ScoreLess(fn_returns[1].score, fn_returns[2].score)

\* the same statement where the score without the contradiction is at least
\* one half
C20_Unclamped ==
    fn_pc = "compared" =>
        \A k \in 1..Len(fn_args.claims) :
            (/\ Contradicted(fn_returns[1].checks[k])
             /\ Unmatched(fn_returns[2].checks[k])
             /\ \A j \in 1..Len(fn_args.claims) :
                   j # k => fn_returns[1].checks[j] = fn_returns[2].checks[j]
             /\ 2 * fn_returns[2].score.num >= fn_returns[2].score.den)
                => ScoreLess(fn_returns[1].score, fn_returns[2].score)

\* some trace's return value holds a number that matches the claim, exactly
\* or closely
HasMatchingNumber(claim, traces) ==
    \E i \in 1..Len(traces) : \E n \in NumbersIn(traces[i].return_value) :
        _compare_numbers(claim.value, n)[1]

\* the return values hold numbers, and each of them differs materially from
\* the claim
AllDifferMaterially(claim, traces) ==
    /\ \E i \in 1..Len(traces) : NumbersIn(traces[i].return_value) # {}
    /\ \A i \in 1..Len(traces) : \A n \in NumbersIn(traces[i].return_value) :
          VeryDifferent(claim.value, n) /\ Milli(n) # 0

\* C29: a numeric claim is counted as grounded only if some trace's return
\* value holds a matching number, and a claim from which every tool number
\* differs materially is not grounded and is reported as contradicted, also
\* when the return value is a list of records
C29_GroundedOnlyIfMatching ==
    fn_pc \in {"validated", "compared"} =>
        \A k \in 1..Len(fn_args.claims) :
            LET check == fn_returns[1].checks[k]
            IN  /\ check.is_match => HasMatchingNumber(fn_args.claims[k], fn_args.traces)
                /\ AllDifferMaterially(fn_args.claims[k], fn_args.traces)
                      => ~check.is_match /\ IsContradiction(check.contradiction)

\* the same statement for return values that are single dicts
C29_SingleDicts ==
    (/\ fn_pc \in {"validated", "compared"}
     /\ \A i \in 1..Len(fn_args.traces) : fn_args.traces[i].return_value.kind = "dict")
        => \A k \in 1..Len(fn_args.claims) :
               LET check == fn_returns[1].checks[k]
               IN  /\ check.is_match => HasMatchingNumber(fn_args.claims[k], fn_args.traces)
                   /\ AllDifferMaterially(fn_args.claims[k], fn_args.traces)
                         => ~check.is_match /\ IsContradiction(check.contradiction)

-----------------------------------------------------------------------------
(* NDCGScorer: NDCG@K of a lodging ranking.  A ranking is a list of ids, the
   relevance map a dict from id to a relevance in thousandths, a score the
   fraction num / den. *)

\* 1 / math.log2(position + 1), in ten-thousandths
Discount(position) ==
    CASE position = 1 -> 10000 [] position = 2 -> 6309 [] position = 3 -> 5000
      [] position = 4 -> 4307 [] OTHER -> 3869

\* relevance_scores.get(item_id, 0.0)
RelevanceOf(relevance_scores, item_id) ==
    IF \E i \in 1..Len(relevance_scores) : relevance_scores[i][1] = item_id
    THEN relevance_scores[CHOOSE i \in 1..Len(relevance_scores) :
                              relevance_scores[i][1] = item_id][2]
    ELSE 0

RECURSIVE DcgFrom(_, _, _)
DcgFrom(ranking, relevance_scores, i) ==
    IF i > Len(ranking) THEN 0
    ELSE RelevanceOf(relevance_scores, ranking[i]) * Discount(i)
         + DcgFrom(ranking, relevance_scores, i + 1)

_calculate_dcg(ranking, relevance_scores) == DcgFrom(ranking, relevance_scores, 1)

\* seq[:k]
Take(seq, k) == SubSeq(seq, 1, IF k < Len(seq) THEN k ELSE Len(seq))

\* sorted(relevance_scores.items(), key=lambda x: x[1], reverse=True): a
\* stable sort, equal relevances keep their order in the dict
SortedByRelevance(items) ==
    LET Before(j, i) == \/ items[j][2] > items[i][2]
                        \/ items[j][2] = items[i][2] /\ j < i
        Place(i) == 1 + Cardinality({j \in 1..Len(items) : Before(j, i)})
    IN  [p \in 1..Len(items) |-> items[CHOOSE i \in 1..Len(items) : Place(i) = p]]

IdealIds(relevance_scores, k) ==
    LET ideal_ranking == Take(SortedByRelevance(relevance_scores), k)
    IN  [p \in 1..Len(ideal_ranking) |-> ideal_ranking[p][1]]

Ratio(num, den) == [num |-> num, den |-> den]

calculate_ndcg_at_k(predicted_ranking, relevance_scores, k) ==
    LET dcg == _calculate_dcg(Take(predicted_ranking, k), relevance_scores)
        idcg == _calculate_dcg(IdealIds(relevance_scores, k), relevance_scores)
    IN  IF idcg = 0 THEN Ratio(0, 1) ELSE Ratio(dcg, idcg)

\* the ids a ranking may name: two lodgings of the relevance map and one the
\* map does not know
RankedIds == {K("h1"), K("h2"), K("h9")}
Rankings == UNION {[1..n -> RankedIds] : n \in 0..MaxLen}
Relevances == {0, 500, 1000}
RelevanceMaps ==
    {<<>>} \cup {<< <<K("h1"), r1>>, <<K("h2"), r2>> >> : r1 \in Relevances, r2 \in Relevances}

InitNdcgInput ==
    /\ fn_args \in [predicted_ranking : Rankings, relevance_scores : RelevanceMaps,
                    k : {2, 3}]
    /\ fn_returns = <<>>
    /\ fn_pc = "start"

\* calculate_ndcg_at_k on the predicted ranking
CalculateNdcg ==
    /\ fn_pc = "start"
    /\ fn_returns' = << calculate_ndcg_at_k(fn_args.predicted_ranking,
                                            fn_args.relevance_scores, fn_args.k) >>
    /\ fn_pc' = "scored"
    /\ UNCHANGED fn_args
    /\ UNCHANGED beside_functions

\* calculate_ndcg_at_k on the relevance-descending ranking of the same map
CalculateIdealNdcg ==
    /\ fn_pc = "scored"
    /\ fn_returns' = Append(fn_returns,
                            calculate_ndcg_at_k(
                                IdealIds(fn_args.relevance_scores,
                                         Len(fn_args.relevance_scores)),
                                fn_args.relevance_scores, fn_args.k))
    /\ fn_pc' = "ideal"
    /\ UNCHANGED fn_args
    /\ UNCHANGED beside_functions

NextNdcg == CalculateNdcg \/ CalculateIdealNdcg

InitNdcg ==
    /\ InitLedger /\ InitRunner /\ InitSessions /\ InitQueue
    /\ InitIsolator /\ InitRegistry /\ InitWrapper /\ InitAdded
    /\ InitNdcgInput

SpecNdcg == InitNdcg /\ [][NextNdcg]_vars

SomeRelevance == \E i \in 1..Len(fn_args.relevance_scores) : fn_args.relevance_scores[i][2] > 0

IdealIsOne ==
    (fn_pc = "ideal" /\ SomeRelevance) => fn_returns[2].num = fn_returns[2].den
ZeroWithoutRelevance ==
    (fn_pc # "start" /\ ~SomeRelevance) => fn_returns[1].num = 0
InUnitInterval ==
    fn_pc # "start" => (0 <= fn_returns[1].num /\ fn_returns[1].num <= fn_returns[1].den)

\* C22: calculate_ndcg_at_k is exactly 1.0 for the relevance-descending
\* ranking when some relevance is positive, 0.0 when the relevance map is
\* empty or all zero, and within [0, 1] for every predicted ranking, rankings
\* with repeated ids or ids missing from the map included.
C22_NdcgInUnitInterval == IdealIsOne /\ ZeroWithoutRelevance /\ InUnitInterval

-----------------------------------------------------------------------------
(* ScoringEngine.score_submission: schema validation, claim extraction and
   grounding, NDCG of the lodging ranking, weighted average.  A call either
   returns a value or raises; exception names the Python exception. *)

Raise(exception) == [exception |-> exception, value |-> PyNone]
Return(value) == [exception |-> None, value |-> value]
HasRaised(r) == r.exception # None

\* a key the container does not hold
Missing == [kind |-> "missing", val |-> <<>>]

\* key in container: a key of a dict, an element of a list, a part of a str;
\* TypeError for a value that is no container
In(key, container) ==
    CASE container.kind = "dict" -> Return(DictHas(container, key))
      [] container.kind = "list" ->
             Return(\E i \in 1..Len(container.val) : container.val[i] = PyStr(key))
      [] container.kind = "str" ->
             Return(\E i \in 1..Len(container.val) :
                        /\ i + Len(key) - 1 <= Len(container.val)
                        /\ SubSeq(container.val, i, i + Len(key) - 1) = key)
      [] OTHER -> Raise("TypeError")

\* `if key in container: container[key]`; a list or a str cannot be indexed
\* by a str
Lookup(container, key) ==
    LET has == In(key, container)
    IN  IF HasRaised(has) THEN has
        ELSE IF ~has.value THEN Return(Missing)
        ELSE IF IsDict(container) THEN Return(DictItem(container, key))
        ELSE Raise("TypeError")

\* SchemaValidator() of the engine has no required fields and no schema; the
\* texts of the model are no JSON documents
validate_schema(submission) ==
    IF IsStr(submission) THEN [is_valid |-> FALSE, errors |-> <<"Invalid JSON">>]
    ELSE IF ~IsDict(submission)
    THEN [is_valid |-> FALSE, errors |-> <<"Submission must be a dictionary/object">>]
    ELSE [is_valid |-> TRUE, errors |-> <<>>]

Claim(field, value, type) == [field |-> field, value |-> value, type |-> type]

numeric_fields ==
    {K("price"), K("cost"), K("total_cost"), K("rate_per_night"), K("total_rate"),
     K("duration"), K("time"), K("distance"), K("rating"), K("review_count")}
AddressWords == {"address", "location", "city"}
DatetimeWords == {"time", "date", "departure", "arrival"}

\* any(indicator in key.lower() ...): a key is a sequence of words
HasWord(key, words) == \E i \in 1..Len(key) : LowerPiece(key[i]) \in words

RECURSIVE ExtractItems(_, _, _)
ExtractItems(data, prefix, i) ==
    IF i > Len(data.val) THEN <<>>
    ELSE LET key == data.val[i][1]
             value == data.val[i][2]
             full_key == IF prefix # <<>> THEN prefix \o <<".">> \o key ELSE key
             here ==
                 IF key \in numeric_fields /\ IsNumber(value)
                 THEN << Claim(full_key, value, "number") >>
                 ELSE IF IsStr(value)
                 THEN IF HasWord(key, AddressWords)
                      THEN << Claim(full_key, value, "address") >>
                      ELSE IF HasWord(key, DatetimeWords)
                      THEN << Claim(full_key, value, "datetime") >>
                      ELSE <<>>
                 ELSE IF IsDict(value) THEN ExtractItems(value, full_key, 1)
                 ELSE <<>>
         IN  here \o ExtractItems(data, prefix, i + 1)

_extract_from_dict(data, prefix) == ExtractItems(data, prefix, 1)

RECURSIVE ExtractList(_, _, _)
ExtractList(value, field, i) ==
    IF i > Len(value.val) THEN <<>>
    ELSE (IF IsDict(value.val[i])
          THEN _extract_from_dict(value.val[i], field \o <<"[">> \o IntStr(i - 1) \o <<"]">>)
          ELSE <<>>)
         \o ExtractList(value, field, i + 1)

fields_to_check ==
    << K("flights"), K("hotels"), K("restaurants"), K("itinerary"), K("cost"), K("summary") >>

RECURSIVE ExtractFields(_, _, _)
ExtractFields(submission, i, claims) ==
    IF i > Len(fields_to_check) THEN Return(claims)
    ELSE LET field == fields_to_check[i]
             value == Lookup(submission, field)
         IN  IF HasRaised(value) THEN value
             ELSE ExtractFields(submission, i + 1,
                      claims \o
                      (CASE value.value.kind = "dict" -> _extract_from_dict(value.value, field)
                         [] value.value.kind = "list" -> ExtractList(value.value, field, 1)
                         [] IsNumber(value.value) -> << Claim(field, value.value, "number") >>
                         [] OTHER -> <<>>))

extract_claims(submission) == ExtractFields(submission, 1, <<>>)

\* a or b
Or(a, b) == IF Truthy(a) THEN a ELSE b

RECURSIVE RankHotels(_, _, _)
RankHotels(hotels, i, ranking) ==
    IF i > Len(hotels) THEN Return(ranking)
    ELSE IF ~IsDict(hotels[i]) THEN Raise("AttributeError")
    ELSE LET hotel_id == Or(Or(DictGet(hotels[i], K("id")), DictGet(hotels[i], K("name"))),
                            DictGet(hotels[i], K("hotel_id")))
         IN  RankHotels(hotels, i + 1,
                        IF Truthy(hotel_id) THEN Append(ranking, ToStr(hotel_id))
                        ELSE ranking)

RECURSIVE RankLodging(_, _, _)
RankLodging(lodging, i, ranking) ==
    IF i > Len(lodging) THEN Return(ranking)
    ELSE IF ~IsDict(lodging[i]) THEN Raise("AttributeError")
    ELSE LET item_id == Or(DictGet(lodging[i], K("id")), DictGet(lodging[i], K("name")))
             ranked == IsStr(item_id) /\ \E j \in 1..Len(ranking) : ranking[j] = item_id.val
         IN  RankLodging(lodging, i + 1,
                         IF Truthy(item_id) /\ ~ranked THEN Append(ranking, ToStr(item_id))
                         ELSE ranking)

extract_ranking_from_submission(submission) ==
    LET hotels == Lookup(submission, K("hotels"))
        ranked == IF HasRaised(hotels) THEN hotels
                  ELSE IF hotels.value.kind = "list" THEN RankHotels(hotels.value.val, 1, <<>>)
                  ELSE Return(<<>>)
        itinerary == Lookup(submission, K("itinerary"))
    IN  IF HasRaised(ranked) THEN ranked
        ELSE IF HasRaised(itinerary) THEN itinerary
        ELSE IF /\ IsDict(itinerary.value)
                /\ DictHas(itinerary.value, K("lodging"))
                /\ DictItem(itinerary.value, K("lodging")).kind = "list"
        THEN RankLodging(DictItem(itinerary.value, K("lodging")).val, 1, ranked.value)
        ELSE ranked

\* for x in value: the elements of a list, the keys of a dict, the
\* characters of a str; TypeError for anything else
Elements(value) ==
    CASE value.kind = "list" -> Return(value.val)
      [] value.kind = "dict" -> Return([i \in 1..Len(value.val) |-> PyStr(value.val[i][1])])
      [] value.kind = "str" -> Return([i \in 1..Len(value.val) |-> Str1(value.val[i])])
      [] OTHER -> Raise("TypeError")

RECURSIVE DigitsValue(_)
DigitsValue(s) ==
    IF s = <<>> THEN 0
    ELSE 10 * DigitsValue(SubSeq(s, 1, Len(s) - 1))
         + (CHOOSE d \in 0..9 : Digit(d) = s[Len(s)])

\* float(x) of a number, float(str(x).replace('$', '').replace(',', ''))
\* of anything else, in thousandths; ValueError for a text that is no numeral
FloatOf(x) ==
    IF IsNumber(x) THEN Return(Milli(x))
    ELSE IF IsStr(x)
    THEN LET text == SelectSeq(x.val, LAMBDA c : c \notin {"$", ","})
         IN  IF AllDigits(text) THEN Return(1000 * DigitsValue(text))
             ELSE Raise("ValueError")
    ELSE Raise("ValueError")

\* the amenities part of the relevance, in thousandths
AmenityScore(item, brief) ==
    LET required_amenities == Elements(DictItem(brief, K("amenities")))
        given == IF DictHas(item, K("amenities")) THEN DictItem(item, K("amenities"))
                 ELSE PyList(<<>>)
        \* a str of amenities is split at its commas: one piece is one amenity
        item_amenities ==
            IF IsStr(given)
            THEN Return([i \in 1..Len(SelectSeq(given.val, LAMBDA c : c # ",")) |->
                            Str1(SelectSeq(given.val, LAMBDA c : c # ",")[i])])
            ELSE Elements(given)
    IN  IF HasRaised(required_amenities) THEN required_amenities
        ELSE IF required_amenities.value = <<>> THEN Return(0)
        ELSE IF HasRaised(item_amenities) THEN item_amenities
        ELSE Return((Cardinality({i \in 1..Len(required_amenities.value) :
                         \E j \in 1..Len(item_amenities.value) :
                             PyEq(required_amenities.value[i], item_amenities.value[j])})
                     * 300) \div Len(required_amenities.value))

\* the budget part: 0.3 within the budget, 0.15 within 10 percent of it
BudgetScore(item, brief) ==
    LET budget == DictItem(brief, K("budget"))
        price == Or(Or(DictGet(item, K("price")), DictGet(item, K("rate_per_night"))),
                    DictGet(item, K("total_rate")))
        price_val == FloatOf(price)
        budget_val == FloatOf(budget)
    IN  IF ~(Truthy(price) /\ Truthy(budget)) THEN 0
        ELSE IF HasRaised(price_val) \/ HasRaised(budget_val) THEN 0
        ELSE IF price_val.value <= budget_val.value THEN 300
        ELSE IF 10 * price_val.value <= 11 * budget_val.value THEN 150
        ELSE 0

_calculate_item_relevance(item, brief) ==
    LET amenities == DictHas(brief, K("amenities"))
        budget == DictHas(brief, K("budget")) /\ DictHas(item, K("price"))
        distance == DictHas(brief, K("activity_location")) /\ DictHas(item, K("location"))
        policies == DictHas(brief, K("policies"))
        amenity_score == IF amenities THEN AmenityScore(item, brief) ELSE Return(0)
        score == amenity_score.value
                 + (IF budget THEN BudgetScore(item, brief) ELSE 0)
                 + (IF distance THEN 100 ELSE 0)
                 + (IF policies THEN 100 ELSE 0)
        max_score == (IF amenities THEN 300 ELSE 0) + (IF budget THEN 300 ELSE 0)
                     + (IF distance THEN 200 ELSE 0) + (IF policies THEN 200 ELSE 0)
    IN  IF HasRaised(amenity_score) THEN amenity_score
        ELSE IF max_score > 0
        THEN Return(IF score >= max_score THEN 1000 ELSE (score * 1000) \div max_score)
        ELSE Return(0)

\* scores[item_id] = score
SetScore(scores, item_id, score) ==
    IF \E i \in 1..Len(scores) : scores[i][1] = item_id
    THEN [i \in 1..Len(scores) |-> IF scores[i][1] = item_id THEN <<item_id, score>>
                                   ELSE scores[i]]
    ELSE Append(scores, <<item_id, score>>)

\* a key of the relevance map: a str is compared with the ids of the
\* ranking, a key of another type equals none of them
IdKey(item_id) == IF IsStr(item_id) THEN item_id.val ELSE <<item_id.kind>> \o ToStr(item_id)

RECURSIVE ScoreItems(_, _, _, _)
ScoreItems(lodging_items, traveler_brief, i, scores) ==
    IF i > Len(lodging_items) THEN Return(scores)
    ELSE IF ~IsDict(lodging_items[i]) THEN Raise("AttributeError")
    ELSE LET item == lodging_items[i]
             \* str(hash(str(item))) when the item has no id and no name
             item_id == Or(Or(DictGet(item, K("id")), DictGet(item, K("name"))),
                           Str1("hash"))
             score == _calculate_item_relevance(item, traveler_brief)
         IN  IF HasRaised(score) THEN score
             ELSE IF ~Hashable(item_id) THEN Raise("TypeError")
             ELSE ScoreItems(lodging_items, traveler_brief, i + 1,
                             SetScore(scores, IdKey(item_id), score.value))

calculate_relevance_scores(lodging_items, traveler_brief) ==
    LET items == Elements(lodging_items)
    IN  IF HasRaised(items) THEN items
        ELSE ScoreItems(items.value, traveler_brief, 1, <<>>)

\* results['ndcg'] = {}
NoNdcg == [empty |-> TRUE, ndcg_at_3 |-> Ratio(0, 1), ndcg_at_5 |-> Ratio(0, 1),
           ranking |-> <<>>]

\* lines 58-73: NDCG@3 and NDCG@5 of the ranking, when there is a brief and
\* the submission has hotels
NdcgOfSubmission(submission, traveler_brief) ==
    LET has_hotels == In(K("hotels"), submission)
        ranking == extract_ranking_from_submission(submission)
        relevance_scores ==
            calculate_relevance_scores(
                IF DictHas(submission, K("hotels")) THEN DictItem(submission, K("hotels"))
                ELSE PyList(<<>>),
                traveler_brief)
    IN  IF ~Truthy(traveler_brief) THEN Return(NoNdcg)
        ELSE IF HasRaised(has_hotels) THEN has_hotels
        ELSE IF ~has_hotels.value THEN Return(NoNdcg)
        ELSE IF HasRaised(ranking) THEN ranking
        ELSE IF ranking.value = <<>> THEN Return(NoNdcg)
        ELSE IF ~IsDict(submission) THEN Raise("AttributeError")
        ELSE IF HasRaised(relevance_scores) THEN relevance_scores
        ELSE Return([empty |-> FALSE,
                     ndcg_at_3 |-> calculate_ndcg_at_k(ranking.value,
                                                       relevance_scores.value, 3),
                     ndcg_at_5 |-> calculate_ndcg_at_k(ranking.value,
                                                       relevance_scores.value, 5),
                     ranking |-> ranking.value])

\* sum(s * w for s, w in zip(scores, weights)) / sum(weights): the scores and
\* their weights in tenths, the division left to the reader of the result
WeightedAverage(scores, weights) == [scores |-> scores, weights |-> weights]

score_submission(submission, traveler_brief, traces) ==
    LET schema_validation == validate_schema(submission)
        claims == extract_claims(submission)
        grounding_results == validate_grounding(claims.value, traces)
        ndcg == NdcgOfSubmission(submission, traveler_brief)
        schema_score == IF schema_validation.is_valid THEN Ratio(1, 1) ELSE Ratio(0, 1)
    IN  IF HasRaised(claims) THEN claims
        ELSE IF HasRaised(ndcg) THEN ndcg
        ELSE Return(
            [schema_validation |-> schema_validation,
             grounding |-> grounding_results,
             ndcg |-> ndcg.value,
             overall_score |->
                 IF ndcg.value.empty
                 THEN WeightedAverage(<<schema_score, grounding_results.score>>, <<2, 5>>)
                 ELSE WeightedAverage(<<schema_score, grounding_results.score,
                                        <<ndcg.value.ndcg_at_3, ndcg.value.ndcg_at_5>> >>,
                                      <<2, 5, 3>>)])

Hotel(id, price) == PyDict(<< <<K("id"), Str1(id)>>, <<K("price"), PyInt(price)>> >>)

\* what a white agent may submit: values that are no dict, well-formed
\* submissions, and submissions with fields of unexpected types
Submissions ==
    { PyNone,
      PyInt(5),
      PyList(<<>>),
      PyList(<< Str1("hotels") >>),
      PyDict(<<>>),
      PyDict(<< <<K("cost"), PyInt(100)>> >>),
      PyDict(<< <<K("hotels"), PyList(<< Hotel("h1", 100), Hotel("h2", 160) >>)>> >>),
      PyDict(<< <<K("hotels"), PyList(<< Hotel("h2", 160), Hotel("h2", 160) >>)>> >>),
      PyDict(<< <<K("hotels"), PyList(<< Hotel("h1", 100), Str1("h2") >>)>> >>),
      PyDict(<< <<K("hotels"), Str1("none")>> >>),
      PyDict(<< <<K("hotels"), Hotel("h1", 100)>>,
                <<K("itinerary"), PyDict(<< <<K("lodging"), PyList(<< Hotel("h1", 100) >>)>> >>)>> >>),
      PyDict(<< <<K("hotels"), PyList(<<>>)>>,
                <<K("itinerary"), PyDict(<< <<K("lodging"), PyList(<< Str1("h1") >>)>> >>)>> >>) }

Briefs ==
    { PyNone,
      PyDict(<<>>),
      PyDict(<< <<K("budget"), PyInt(150)>> >>),
      PyDict(<< <<K("budget"), Str1("150")>>, <<K("policies"), Str1("pets")>> >>),
      PyDict(<< <<K("amenities"), PyList(<< Str1("pool") >>)>> >>) }

ScoringTraces ==
    { <<>>,
      << Trace(PyDict(<< <<K("price"), PyInt(100)>> >>)) >>,
      << Trace(PyList(<< PyDict(<< <<K("price"), PyInt(300)>> >>) >>)) >> }

InitScoringInput ==
    /\ fn_args \in [submission : Submissions, traveler_brief : Briefs,
                    traces : ScoringTraces]
    /\ fn_returns = <<>>
    /\ fn_pc = "start"

\* one call of score_submission: its result or the exception it raised
ScoreSubmission ==
    /\ fn_pc = "start"
    /\ fn_returns' = << score_submission(fn_args.submission, fn_args.traveler_brief,
                                         fn_args.traces) >>
    /\ fn_pc' = "scored"
    /\ UNCHANGED fn_args
    /\ UNCHANGED beside_functions

NextScoring == ScoreSubmission

InitScoring ==
    /\ InitLedger /\ InitRunner /\ InitSessions /\ InitQueue
    /\ InitIsolator /\ InitRegistry /\ InitWrapper /\ InitAdded
    /\ InitScoringInput

SpecScoring == InitScoring /\ [][NextScoring]_vars

\* C21: score_submission never raises: for every submission (no dict, None,
\* a hotels list with items that are no dicts, fields of unexpected types) and
\* every traveler brief it returns a result.
C21_NeverRaises == fn_pc = "scored" => ~HasRaised(fn_returns[1])

-----------------------------------------------------------------------------
(* ArtifactGenerator.export_all_artifacts: the artifact files are written
   one after the other with open(path, 'w'), which creates or truncates the
   file, and a buffered file object that reaches the disk when its buffer
   fills and when it is closed.  A concurrent reader reads a file at any
   moment. *)

MaxExports == 2
Chunks == 2

\* the text export number n writes to a file, in the pieces the file object
\* may flush one by one
Document(name, n) == [k \in 1..Chunks |-> <<name, n, k>>]

Exporting == export_pc.file # 0
CurrentName == ArtifactNames[export_pc.file]

\* what follows file i: the white agent output is written only when given
NextFile(i) ==
    IF i = 4 THEN (IF export_pc.white_agent_output THEN 5 ELSE 0)
    ELSE IF i = 5 THEN 0
    ELSE i + 1

\* export_all_artifacts is called: the directory is made
StartExport ==
    /\ ~Exporting
    /\ export_pc.export < MaxExports
    /\ \E given \in BOOLEAN :
           export_pc' = [export |-> export_pc.export + 1, file |-> 1, stage |-> "closed",
                         white_agent_output |-> given]
    /\ UNCHANGED <<artifact_files, write_buffer, observed>>
    /\ UNCHANGED <<ledger_vars, beside_artifacts>>

\* open(path, 'w') of metrics, leaderboard row, tool results bundle and white
\* agent output: the file is created or truncated, json.dump fills the buffer
OpenArtifact ==
    /\ Exporting
    /\ export_pc.file # 3
    /\ export_pc.stage = "closed"
    /\ artifact_files' = [artifact_files EXCEPT ![CurrentName] =
                              [exists |-> TRUE, content |-> <<>>]]
    /\ write_buffer' = Document(CurrentName, export_pc.export)
    /\ export_pc' = [export_pc EXCEPT !.stage = "open"]
    /\ UNCHANGED observed
    /\ UNCHANGED <<ledger_vars, beside_artifacts>>

\* trace_ledger.export_to_json(path): nothing is written without a ledger
ExportLedgerFile ==
    /\ Exporting
    /\ export_pc.file = 3
    /\ export_pc.stage = "closed"
    /\ SetLedgerState(get_ledger(LedgerState))
    /\ exported' = export_to_json(LedgerState)
    /\ op' = "export_to_json"
    /\ UNCHANGED view
    /\ IF ledger.exists
       THEN /\ artifact_files' = [artifact_files EXCEPT ![CurrentName] =
                                      [exists |-> TRUE, content |-> <<>>]]
            /\ write_buffer' = Document(CurrentName, export_pc.export)
            /\ export_pc' = [export_pc EXCEPT !.stage = "open"]
       ELSE /\ export_pc' = [export_pc EXCEPT !.file = NextFile(3)]
            /\ UNCHANGED <<artifact_files, write_buffer>>
    /\ UNCHANGED observed
    /\ UNCHANGED beside_artifacts

\* the buffer of the open file fills: its first piece reaches the disk
FlushBuffer ==
    /\ Exporting
    /\ export_pc.stage = "open"
    /\ write_buffer # <<>>
    /\ artifact_files' = [artifact_files EXCEPT ![CurrentName].content =
                              Append(@, Head(write_buffer))]
    /\ write_buffer' = Tail(write_buffer)
    /\ UNCHANGED <<export_pc, observed>>
    /\ UNCHANGED <<ledger_vars, beside_artifacts>>

\* the with block ends: the rest of the buffer reaches the disk
CloseArtifact ==
    /\ Exporting
    /\ export_pc.stage = "open"
    /\ artifact_files' = [artifact_files EXCEPT ![CurrentName].content = @ \o write_buffer]
    /\ write_buffer' = <<>>
    /\ export_pc' = [export_pc EXCEPT !.stage = "closed", !.file = NextFile(export_pc.file)]
    /\ UNCHANGED observed
    /\ UNCHANGED <<ledger_vars, beside_artifacts>>

\* a concurrent reader reads one artifact file
ReadArtifact ==
    /\ \E name \in ArtifactSet :
           observed' = << [name |-> name, file |-> artifact_files[name]] >>
    /\ UNCHANGED <<artifact_files, export_pc, write_buffer>>
    /\ UNCHANGED <<ledger_vars, beside_artifacts>>

NextArtifacts ==
    \/ Initialize
    \/ StartExport
    \/ OpenArtifact
    \/ ExportLedgerFile
    \/ FlushBuffer
    \/ CloseArtifact
    \/ ReadArtifact

InitExporter ==
    /\ InitLedger /\ InitRunner /\ InitSessions /\ InitQueue /\ InitHarness

SpecArtifacts == InitExporter /\ [][NextArtifacts]_vars

\* a file as one whole export left it
CompleteFile(name, file) ==
    \E n \in 1..MaxExports : file = [exists |-> TRUE, content |-> Document(name, n)]

\* C23: a concurrent reader of an artifact file never observes a partial
\* file: it sees the file absent, or the complete content of one export.
C23_NoPartialFile ==
    observed # <<>> =>
        \/ observed[1].file = NoFile
        \/ CompleteFile(observed[1].name, observed[1].file)

-----------------------------------------------------------------------------
(* save_fixture followed by load_fixture, checked in SpecFixtures *)

\* the file a save_fixture or load_fixture call with this key names
ExactPath(key) == _get_fixture_path(key[1], key[3], _hash_params(key[1], key[2]))

\* save s is the last one that wrote its file before load j
LastSaveBefore(s, j) ==
    /\ saved[s].loads < j
    /\ \A t \in 1..Len(saved) :
           (t > s /\ saved[t].loads < j) => ExactPath(saved[t].key) # ExactPath(saved[s].key)

\* C24: save_fixture is the inverse of load_fixture: after
\* save_fixture(tool, params, seed, data, format), load_fixture(tool, params,
\* seed) returns data equal to what was saved, for json, dataframe and text
\* payloads, whatever load_fixture calls happened before the save.
C24_LoadReturnsSaved ==
    \A s \in 1..MaxSaves : \A j \in 1..MaxLoads :
        (s <= Len(saved) /\ j <= Len(loads) /\ LastSaveBefore(s, j)
         /\ loads[j].key = saved[s].key)
            => /\ loads[j].response.found
               /\ PyEq(loads[j].response.data, saved[s].data)

-----------------------------------------------------------------------------
(* The normalized plan of an accepted plan, checked in Spec *)

\* C25: every call in the normalized plan returned by a successful
\* validate_plan itself passes ToolRegistry.validate_tool_call: normalization
\* never turns a valid required argument into an empty or wrongly typed one.
C25_NormalizedPlanValid ==
    (entry_point = "validate_and_execute_plan" /\ pc = "executing") =>
        \A i \in 1..MaxPlanLen :
            i <= Len(plan) =>
                validate_tool_call(DictItem(plan[i], K("tool")),
                                   DictItem(plan[i], K("args"))).ok

-----------------------------------------------------------------------------
(* SpecRunIds: the controller and the ledger manager driven by any sequence
   of controller.start_run, initialize, record_tool_call, clear and
   controller.reset *)

\* the run ids a caller passes
GivenRunIds == {"run-a"}

\* GreenAgentController.reset(): the run id is forgotten
reset(s) == [s EXCEPT !.run_id = None]

\* controller.start_run(run_id), with a run id or without
ControllerStartRun ==
    /\ \E run_id \in GivenRunIds \cup {None} :
          /\ run_id = None => RunAllowed
          /\ SetLedgerState(start_run(LedgerState, run_id))
    /\ UNCHANGED <<runner_vars, session_vars, queue_vars, harness_vars>>
    /\ op' = "start_run"
    /\ exported' = <<>> /\ UNCHANGED view

\* trace_ledger.initialize(run_id) with a run id of the caller
InitializeWithRunId ==
    /\ \E run_id \in GivenRunIds : SetLedgerState(initialize(LedgerState, run_id))
    /\ UNCHANGED <<runner_vars, session_vars, queue_vars, harness_vars>>
    /\ op' = "initialize"
    /\ exported' = <<>> /\ UNCHANGED view

ControllerReset ==
    /\ SetLedgerState(reset(LedgerState))
    /\ UNCHANGED <<runner_vars, session_vars, queue_vars, harness_vars>>
    /\ op' = "reset"
    /\ exported' = <<>> /\ UNCHANGED view

NextRunIds ==
    \/ ControllerStartRun
    \/ Initialize
    \/ InitializeWithRunId
    \/ RecordToolCall
    \/ Clear
    \/ ControllerReset

SpecRunIds == InitIdle /\ [][NextRunIds]_vars

\* C26: every trace in a ledger carries the run id of that ledger, never
\* 'unknown' and never the id of another run.
C26_TraceRunIds ==
    ledger.exists =>
        \A i \in 1..MaxCalls :
            i <= Len(ledger.traces) => heap[ledger.traces[i]].run_id = ledger.run_id

\* C27: a subscriber is delivered only events that were put after its
\* subscribe() call; an event put before it is never delivered to it.
C27_OnlyEventsPutWhileSubscribed ==
    \A t \in Threads :
        \A i \in 1..Len(delivered[t]) :
            /\ subscribed_at[t].subscribed
            /\ delivered[t][i] > subscribed_at[t].puts

-----------------------------------------------------------------------------
(* SpecSandbox: Sandbox objects used as context managers. socket.socket and *)
(* the state of the module random are process-wide; each GreenAgent owns    *)
(* one Sandbox and enters it once per validate_and_execute_plan call.       *)

MaxSandboxes == 2
MaxEnters == 2
MaxSockets == 2

SandboxSeeds == {"seed-1", "seed-2"}

\* Sandbox.__init__(seed, disable_network); the attribute _original_socket
\* does not exist on a new object
Sandbox(seed, disable_network) ==
    [seed |-> seed, disable_network |-> disable_network,
     _original_random_state |-> None, _network_blocked |-> FALSE,
     has_original_socket |-> FALSE, _original_socket |-> None,
     inside |-> FALSE, entered |-> 0]

\* Sandbox._block_network()
_block_network(self) ==
    IF ~self.has_original_socket
    THEN [self |-> [self EXCEPT !._network_blocked = TRUE,
                                !.has_original_socket = TRUE,
                                !._original_socket = socket_socket],
          socket |-> "blocked_socket"]
    ELSE [self |-> [self EXCEPT !._network_blocked = TRUE],
          socket |-> socket_socket]

\* Sandbox._unblock_network()
_unblock_network(self) ==
    IF self._network_blocked /\ self.has_original_socket
    THEN [self |-> [self EXCEPT !._network_blocked = FALSE],
          socket |-> self._original_socket]
    ELSE [self |-> self, socket |-> socket_socket]

\* GreenAgent.__init__: self.sandbox = Sandbox(seed, disable_network)
NewSandbox ==
    /\ Len(sandboxes) < MaxSandboxes
    /\ \E seed \in SandboxSeeds, disable_network \in BOOLEAN :
          sandboxes' = Append(sandboxes, Sandbox(seed, disable_network))
    /\ UNCHANGED <<socket_socket, random_state, socket_log>>
    /\ UNCHANGED beside_sandbox

\* Sandbox.__enter__()
SandboxEnter(k) ==
    /\ k \in DOMAIN sandboxes
    /\ ~sandboxes[k].inside
    /\ sandboxes[k].entered < MaxEnters
    /\ LET seeded == [sandboxes[k] EXCEPT !._original_random_state = random_state,
                                          !.inside = TRUE,
                                          !.entered = @ + 1]
           blocked == IF seeded.disable_network THEN _block_network(seeded)
                      ELSE [self |-> seeded, socket |-> socket_socket]
       IN  /\ random_state' = seeded.seed
           /\ sandboxes' = [sandboxes EXCEPT ![k] = blocked.self]
           /\ socket_socket' = blocked.socket
    /\ UNCHANGED socket_log
    /\ UNCHANGED beside_sandbox

\* Sandbox.__exit__()
SandboxExit(k) ==
    /\ k \in DOMAIN sandboxes
    /\ sandboxes[k].inside
    /\ LET self == [sandboxes[k] EXCEPT !.inside = FALSE]
           unblocked == IF self._network_blocked THEN _unblock_network(self)
                        ELSE [self |-> self, socket |-> socket_socket]
       IN  /\ random_state' = IF self._original_random_state # None
                              THEN self._original_random_state ELSE random_state
           /\ sandboxes' = [sandboxes EXCEPT ![k] = unblocked.self]
           /\ socket_socket' = unblocked.socket
    /\ UNCHANGED socket_log
    /\ UNCHANGED beside_sandbox

\* socket.socket(...) called by the code running inside the context of
\* Sandbox k: blocked_socket raises RuntimeError, the original constructor
\* creates a socket
CreateSocket(k) ==
    /\ k \in DOMAIN sandboxes
    /\ sandboxes[k].inside
    /\ Len(socket_log) < MaxSockets
    /\ socket_log' = Append(socket_log,
                            [sandbox |-> k, entry |-> sandboxes[k].entered,
                             disable_network |-> sandboxes[k].disable_network,
                             raised |-> socket_socket = "blocked_socket"])
    /\ UNCHANGED <<socket_socket, random_state, sandboxes>>
    /\ UNCHANGED beside_sandbox

SandboxEnterStep == \E k \in 1..MaxSandboxes : SandboxEnter(k)
SandboxExitStep == \E k \in 1..MaxSandboxes : SandboxExit(k)
CreateSocketStep == \E k \in 1..MaxSandboxes : CreateSocket(k)

NextSandbox ==
    \/ NewSandbox
    \/ SandboxEnterStep
    \/ SandboxExitStep
    \/ CreateSocketStep

InitNoSandbox ==
    /\ InitLedger /\ InitRunner /\ InitSessions /\ InitQueue /\ InitHarness

SpecSandbox == InitNoSandbox /\ [][NextSandbox]_vars

\* C28: a socket.socket() call made inside the context of a Sandbox with
\* disable_network=True raises, on the first entry of the object and on
\* every later one, and when no context is active socket.socket is the
\* original constructor.
C28_NetworkBlockedInContext ==
    /\ \A i \in 1..Len(socket_log) :
          socket_log[i].disable_network => socket_log[i].raised
    /\ (\A k \in 1..Len(sandboxes) : ~sandboxes[k].inside) => socket_socket = "socket"

\* one Sandbox object alone, entered a second time
SecondEntryOpen ==
    /\ Len(sandboxes) = 1
    /\ sandboxes[1].disable_network /\ sandboxes[1].inside /\ sandboxes[1].entered = 2
    /\ socket_socket = "socket"

-----------------------------------------------------------------------------
(* SpecTracking: the tools of the white agent as wrapped by                  *)
(* wrap_white_agent_tools(white_agent, controller, use_fixtures=True,       *)
(* trace_ledger=trace_ledger_manager), with the module-level tracking dicts *)
(* of integration.py. A wrapped call runs on the event loop without an      *)
(* await, so it is one step. A query is a sequence of pieces, each a word   *)
(* or one blank; no piece holds a digit, and the queries name one city.     *)

MaxToolCalls == 3
MaxResets == 1

\* the wrapped tool that is called
TrackedTools == {"flight_search"}

TrackedQueries ==
    { <<"NYC", " ", "flights">>, <<"flights", " ", " ", "nyc">>, <<"hotels">> }

\* " ".join(words)
RECURSIVE JoinBlank(_)
JoinBlank(words) ==
    IF Len(words) <= 1 THEN words
    ELSE <<words[1], " ">> \o JoinBlank(Tail(words))

\* city_to_code, for the words of the queries
CityCode(word) == CASE word = "nyc" -> "NYC" [] word = "sfo" -> "SFO" [] OTHER -> None

\* normalize_query(query): the route signature of a flight query, else the
\* lower-cased query with its whitespace collapsed
normalize_query(query) ==
    LET words == SelectSeq(Lower(query), LAMBDA c : ~IsSpace(c))
        normalized == JoinBlank(words)
        \* re.findall(r'\b[A-Z]{3}\b', query.upper())
        airport_codes == {CityCode(words[i]) : i \in 1..Len(words)} \ {None}
        \* the city names and the airport codes name the same codes here
        found_codes == airport_codes
        is_flight == \/ \E i \in 1..Len(words) : words[i] = "flights"
                     \/ airport_codes \cap {"LAX", "NYC", "SFO", "JFK", "EWR", "LGA", "BCN"} # {}
    IN  IF is_flight /\ Cardinality(found_codes) = 1
        THEN <<CHOOSE code \in found_codes : TRUE>>
        ELSE normalized

\* get_tool_call_key(tool_name, query)
get_tool_call_key(tool_name, query) == <<tool_name, ":">> \o Md5Hex(normalize_query(query))

\* the text of a result: str(result) if result else ""
PermanentFailureText == <<"PERMANENT_FAILURE", ": quota exceeded">>
ErrorText == <<"Error", ": no results">>
OkText == <<"3 results">>
FixtureText == <<"[{...}]">>

\* "PERMANENT_FAILURE" in text or "permanent failure" in text.lower()
HasPermanentFailure(text) ==
    \E i \in 1..Len(text) : text[i] \in {"PERMANENT_FAILURE", "Permanent failure"}

\* text.lower().startswith("error")
StartsWithError(text) == text # <<>> /\ text[1] \in {"Error", "error"}

Tracking == [counts |-> _tool_call_counts, failures |-> _tool_failures,
             successes |-> _tool_successes]

\* check_and_increment_tool_call with the limit tested as count > 2
check_and_increment_tool_call_late(t, tool_name, query) ==
    LET key == get_tool_call_key(tool_name, query)
        count == Get(t.counts, key, 0)
    IN  IF tool_name \in DOMAIN t.failures
        THEN [should_block |-> TRUE, count |-> 999,
              failure_reason |-> <<"Permanent failure">>, counts |-> t.counts]
        ELSE IF key \in DOMAIN t.successes
        THEN [should_block |-> TRUE, count |-> 1,
              failure_reason |-> <<"Already succeeded">>, counts |-> t.counts]
        ELSE IF count > 2
        THEN [should_block |-> TRUE, count |-> count,
              failure_reason |-> <<"Maximum retry limit (2) reached for this query">>,
              counts |-> t.counts]
        ELSE [should_block |-> FALSE, count |-> count + 1, failure_reason |-> <<>>,
              counts |-> DictSet(t.counts, key, count + 1)]

\* check_and_increment_tool_call(tool_name, query): what it returns and the
\* counts it leaves
check_and_increment_tool_call(t, tool_name, query) ==
    LET key == get_tool_call_key(tool_name, query)
        count == Get(t.counts, key, 0)
    IN  IF tool_name \in DOMAIN t.failures
        THEN [should_block |-> TRUE, count |-> 999,
              failure_reason |-> <<"Permanent failure">>, counts |-> t.counts]
        ELSE IF key \in DOMAIN t.successes
        THEN [should_block |-> TRUE, count |-> 1,
              failure_reason |-> <<"Already succeeded">>, counts |-> t.counts]
        ELSE IF count >= 2
        THEN [should_block |-> TRUE, count |-> count,
              failure_reason |-> <<"Maximum retry limit (2) reached for this query">>,
              counts |-> t.counts]
        ELSE [should_block |-> FALSE, count |-> count + 1, failure_reason |-> <<>>,
              counts |-> DictSet(t.counts, key, count + 1)]

\* record_tool_failure(tool_name, error_message)
record_tool_failure(failures, tool_name, error_message) ==
    IF HasPermanentFailure(error_message) THEN DictSet(failures, tool_name, error_message)
    ELSE failures

\* record_tool_success(tool_name, query, return_value)
record_tool_success(successes, tool_name, query, return_value) ==
    DictSet(successes, get_tool_call_key(tool_name, query), return_value)

\* reset_tool_call_tracking()
ResetToolCallTracking ==
    /\ resets < MaxResets
    /\ resets' = resets + 1
    /\ _tool_call_counts' = EmptyDict
    /\ _tool_failures' = EmptyDict
    /\ _tool_successes' = EmptyDict
    /\ UNCHANGED tool_log
    /\ UNCHANGED <<ledger_vars, beside_tracking>>

\* what the function made by FixtureWrapper.wrap_tool does when called: it
\* returns a fixture without calling the tool, or calls the tool once, which
\* returns a text or raises
WrappedOutcomes == {"fixture", "ok", "error", "permanent", "raises"}

ResultText(returned) ==
    CASE returned = "fixture" -> FixtureText
      [] returned = "ok" -> OkText
      [] returned = "error" -> ErrorText
      [] returned = "permanent" -> PermanentFailureText
      [] OTHER -> <<>>

QueryArguments(query) == PyDict(<< <<K("query"), PyStr(query)>> >>)

Logged(tool_name, query, blocked, returned, trace) ==
    [epoch |-> resets, tool |-> tool_name, key |-> get_tool_call_key(tool_name, query),
     blocked |-> blocked, returned |-> returned, trace |-> trace]

\* wrapped_run(query) of the tool t_name, a call that is blocked
BlockedRun(t_name, query, check) ==
    LET error_msg == IF check.failure_reason = <<"Permanent failure">>
                     THEN <<"PERMANENT_FAILURE", ": Tool has permanently failed">>
                     ELSE <<"Error", ": Tool has already been called">>
        s == record_tool_call(LedgerState, PyStr(<<t_name>>), QueryArguments(query),
                              PyStr(error_msg), "Duplicate call blocked")
    IN  /\ SetLedgerState(s)
        /\ tool_log' = Append(tool_log, Logged(t_name, query, TRUE, "none", Len(s.heap)))
        /\ UNCHANGED <<_tool_call_counts, _tool_failures, _tool_successes>>

\* wrapped_run(query) of the tool t_name, a call that is let through
AllowedRun(t_name, query, check, returned) ==
    LET result_str == ResultText(returned)
        s == IF returned = "raises"
             THEN record_tool_call(LedgerState, PyStr(<<t_name>>), QueryArguments(query),
                                   PyNone, "boom")
             ELSE record_tool_call(LedgerState, PyStr(<<t_name>>), QueryArguments(query),
                                   PyStr(result_str), None)
    IN  /\ _tool_call_counts' = check.counts
        /\ _tool_failures' =
              IF returned # "raises" /\ HasPermanentFailure(result_str)
              THEN record_tool_failure(_tool_failures, t_name, result_str)
              ELSE _tool_failures
        /\ _tool_successes' =
              IF /\ returned # "raises"
                 /\ ~HasPermanentFailure(result_str)
                 /\ result_str # <<>> /\ ~StartsWithError(result_str)
              THEN record_tool_success(_tool_successes, t_name, query, result_str)
              ELSE _tool_successes
        /\ SetLedgerState(s)
        /\ tool_log' = Append(tool_log, Logged(t_name, query, FALSE, returned, Len(s.heap)))

\* wrapped_run(query) of the tool t_name
WrappedRun ==
    /\ Len(tool_log) < MaxToolCalls
    /\ \E t_name \in TrackedTools, query \in TrackedQueries :
          \E check \in {check_and_increment_tool_call(Tracking, t_name, query)} :
             IF check.should_block
             THEN BlockedRun(t_name, query, check)
             ELSE \E returned \in WrappedOutcomes : AllowedRun(t_name, query, check, returned)
    /\ op' = "record_tool_call"
    /\ exported' = <<>>
    /\ UNCHANGED <<view, resets>>
    /\ UNCHANGED beside_tracking

NextTracking ==
    \/ WrappedRun
    \/ ResetToolCallTracking

\* wrap_white_agent_tools() has reset the tracking; no ledger yet
InitWrapped ==
    /\ InitLedger /\ InitRunner /\ InitSessions /\ InitQueue /\ InitHarness

SpecTracking == InitWrapped /\ [][NextTracking]_vars

\* the underlying tool ran: the call was let through and no fixture answered
ToolInvoked(e) == ~e.blocked /\ e.returned # "fixture"
\* the call returned a result that is neither empty nor an error text
CallSucceeded(e) == ~e.blocked /\ e.returned \in {"fixture", "ok"}
\* the call returned a permanent failure
PermanentlyFailed(e) == ~e.blocked /\ e.returned = "permanent"

=============================================================================
